---- MODULE Spec2Model ----
(***************************************************************************)
(* k8sctl: the OIDC trust layer of the server (pkg/oidc: Config,           *)
(* Validator, Middleware), the routes cmd/server.go puts behind it, the    *)
(* key storage behind the Validator, and the client side of the token      *)
(* exchange (cmd/auth_common.go, pkg/config, the auth-check command).      *)
(*                                                                         *)
(* JSON values are tagged records, so that a claim of the wrong JSON type  *)
(* is a value the Go type assertions can reject:                           *)
(*   [t |-> "absent"]            the key is not in the map                 *)
(*   [t |-> "str",  v |-> s]     a JSON string                             *)
(*   [t |-> "num",  v |-> n]     a JSON number (float64 after decoding)    *)
(*   [t |-> "list", v |-> q]     a JSON array ([]interface{})              *)
(* Tokens carry the claims the identity provider issues and the validator  *)
(* reads: iss, aud, exp, groups, sub, email.                               *)
(***************************************************************************)
EXTENDS Integers, Sequences, FiniteSets, TLC

VARIABLES
    phase,      \* serverCmd.Run: "boot", "fatal", "configured", "serving"
    env,        \* the process environment read by LoadConfigFromEnv
    config,     \* *oidc.Config handed to NewValidator
    storage,    \* which jwkset.Storage Validator.jwks holds: "none", "http", "memory"
    jwks,       \* key identifiers readable through Validator.jwks (KeyRead)
    idp,        \* the identity provider: [keys: published kids, up: reachable]
    now,        \* time.Now().Unix()
    req,        \* the request in the gin handler chain
    tok,        \* the tokenString given to ValidateToken
    res,        \* what ValidateToken returned
    rfr,         \* SpecK: the refresh goroutine and the mutex of the HTTP storage
    cli         \* SpecC: one run of a client command

vars == <<phase, env, config, storage, jwks, idp, now, req, tok, res, rfr, cli>>

-----------------------------------------------------------------------------
(* Bounds *)

\* the clock runs over 0..MaxTime and numeric exp claims over 1..MaxTime
MaxTime == 2

-----------------------------------------------------------------------------
(* JSON values *)

Absent == [t |-> "absent"]
Str(s) == [t |-> "str", v |-> s]
Num(n) == [t |-> "num", v |-> n]
List(q) == [t |-> "list", v |-> q]

RECURSIVE StringsOf(_)
\* the string elements of a []interface{}, in order (the a.(string) loops)
StringsOf(q) ==
    IF q = <<>> THEN <<>>
    ELSE IF Head(q).t = "str" THEN <<Head(q).v>> \o StringsOf(Tail(q))
    ELSE StringsOf(Tail(q))

Range(q) == {q[i] : i \in 1..Len(q)}

-----------------------------------------------------------------------------
(* Strings: a string is a sequence of atoms, so that splitting, trimming and
   case folding are computed; a compact JWT is one atom of a string *)

Sp == [c |-> "sp"]
W(w) == [c |-> "word", w |-> w]
JWT(h, cl) == [c |-> "jwt", alg |-> h.alg, kid |-> h.kid, sig |-> h.sig, claims |-> cl]

-----------------------------------------------------------------------------
(* Configuration values *)

Issuer == "https://dex.example.com"
Audience == "https://svc.example.com"
OtherURL == "https://other.example.com"

Kids == {"k1", "k2"}

NoErr == ""
NoClaims == [t |-> "nil"]

-----------------------------------------------------------------------------
(* pkg/oidc Validator *)

\* verifyIssuer: iss must be a string equal to config.IssuerURL
verifyIssuer(cfg, mapClaims) ==
    IF mapClaims.iss.t # "str" \/ mapClaims.iss.v # cfg.IssuerURL
    THEN "invalid issuer"
    ELSE NoErr

\* a variant of extractAudiences that keeps only the first element of a list
extractAudiences_firstOnly(mapClaims) ==
    CASE mapClaims.aud.t = "str" ->
            [audiences |-> <<mapClaims.aud.v>>, err |-> NoErr]
      [] mapClaims.aud.t = "list" ->
            [audiences |-> StringsOf(SubSeq(mapClaims.aud.v, 1, 1)), err |-> NoErr]
      [] OTHER ->
            [audiences |-> <<>>, err |-> "invalid audience claim type"]

\* extractAudiences: a string is one audience, a list keeps its string
\* elements, anything else is an error
extractAudiences(mapClaims) ==
    CASE mapClaims.aud.t = "str" ->
            [audiences |-> <<mapClaims.aud.v>>, err |-> NoErr]
      [] mapClaims.aud.t = "list" ->
            [audiences |-> StringsOf(mapClaims.aud.v), err |-> NoErr]
      [] OTHER ->
            [audiences |-> <<>>, err |-> "invalid audience claim type"]

\* a variant of verifyAudience that compares the whole claim with
\* config.Audience instead of testing membership
verifyAudience_exact(cfg, mapClaims) ==
    LET ex == extractAudiences_firstOnly(mapClaims) IN
    IF ex.err # NoErr THEN ex.err
    ELSE IF ex.audiences = <<cfg.Audience>> /\ mapClaims.aud.t = "str"
         THEN NoErr
         ELSE "invalid audience"

\* verifyAudience: some extracted audience equals config.Audience
verifyAudience(cfg, mapClaims) ==
    LET ex == extractAudiences(mapClaims) IN
    IF ex.err # NoErr THEN ex.err
    ELSE IF \E i \in 1..Len(ex.audiences) : ex.audiences[i] = cfg.Audience
         THEN NoErr
         ELSE "invalid audience"

\* verifyExpiration: exp must be a float64; rejected when now > int64(exp)
verifyExpiration(t, mapClaims) ==
    IF mapClaims.exp.t # "num" THEN "missing or invalid exp claim"
    ELSE IF t > mapClaims.exp.v THEN "token expired"
    ELSE NoErr

\* extractUserGroups: the key must be present and hold a list
extractUserGroups(mapClaims) ==
    CASE mapClaims.groups.t = "absent" ->
            [userGroups |-> <<>>, err |-> "token missing groups claim"]
      [] mapClaims.groups.t = "list" ->
            [userGroups |-> StringsOf(mapClaims.groups.v), err |-> NoErr]
      [] OTHER ->
            [userGroups |-> <<>>, err |-> "invalid groups claim type"]

\* a variant of verifyGroupMembership that wants every user group allowed
verifyGroupMembership_all(cfg, mapClaims) ==
    IF Len(cfg.AllowedGroups) = 0 THEN NoErr
    ELSE LET ex == extractUserGroups(mapClaims) IN
         IF ex.err # NoErr THEN ex.err
         ELSE IF /\ ex.userGroups # <<>>
                 /\ \A i \in 1..Len(ex.userGroups) :
                        \E j \in 1..Len(cfg.AllowedGroups) :
                            ex.userGroups[i] = cfg.AllowedGroups[j]
              THEN NoErr
              ELSE "user not in allowed groups"

\* a variant of verifyGroupMembership without the early return for an empty
\* allow-list
verifyGroupMembership_noSkip(cfg, mapClaims) ==
    LET ex == extractUserGroups(mapClaims) IN
    IF ex.err # NoErr THEN ex.err
    ELSE IF \E i \in 1..Len(ex.userGroups) :
               \E j \in 1..Len(cfg.AllowedGroups) :
                   ex.userGroups[i] = cfg.AllowedGroups[j]
         THEN NoErr
         ELSE "user not in allowed groups"

\* verifyGroupMembership: skipped when no groups are configured, else some
\* user group must be an allowed group
verifyGroupMembership(cfg, mapClaims) ==
    IF Len(cfg.AllowedGroups) = 0 THEN NoErr
    ELSE LET ex == extractUserGroups(mapClaims) IN
         IF ex.err # NoErr THEN ex.err
         ELSE IF \E i \in 1..Len(ex.userGroups) :
                    \E j \in 1..Len(cfg.AllowedGroups) :
                        ex.userGroups[i] = cfg.AllowedGroups[j]
              THEN NoErr
              ELSE "user not in allowed groups"

\* a variant of getKeyFunc that falls back to a key of the set when the kid
\* is not found
getKeyFunc_anyKey(keys, token) ==
    IF token.alg # "RS256"
    THEN [key |-> "", err |-> "unexpected signing method"]
    ELSE IF token.kid.t # "str"
    THEN [key |-> "", err |-> "token missing kid header"]
    ELSE IF token.kid.v \notin keys /\ keys = {}
    THEN [key |-> "", err |-> "failed to find key in JWKS"]
    ELSE IF token.kid.v \notin keys
    THEN [key |-> CHOOSE k \in keys : TRUE, err |-> NoErr]
    ELSE [key |-> token.kid.v, err |-> NoErr]

\* getKeyFunc: RSA signing method, string kid header, key found by KeyRead
getKeyFunc(keys, token) ==
    IF token.alg # "RS256"
    THEN [key |-> "", err |-> "unexpected signing method"]
    ELSE IF token.kid.t # "str"
    THEN [key |-> "", err |-> "token missing kid header"]
    ELSE IF token.kid.v \notin keys
    THEN [key |-> "", err |-> "failed to find key in JWKS"]
    ELSE [key |-> token.kid.v, err |-> NoErr]

\* a string is a sequence of atoms; a well-formed compact JWT is one atom
IsJWT(s) == Len(s) = 1 /\ s[1].c = "jwt"

\* a variant of jwtParse that skips the validation of the registered claims
jwtParse_noClaimsValidation(keys, t, tokenString) ==
    IF ~IsJWT(tokenString)
    THEN [valid |-> FALSE, token |-> NoClaims, err |-> "token is malformed"]
    ELSE LET token == tokenString[1]
             k == getKeyFunc(keys, token) IN
         IF k.err # NoErr THEN [valid |-> FALSE, token |-> token, err |-> k.err]
         ELSE IF token.sig # k.key
         THEN [valid |-> FALSE, token |-> token, err |-> "token signature is invalid"]
         ELSE [valid |-> TRUE, token |-> token, err |-> NoErr]

\* a variant of jwtParse that accepts a token in the second of its exp
jwtParse_expInclusive(keys, t, tokenString) ==
    IF ~IsJWT(tokenString)
    THEN [valid |-> FALSE, token |-> NoClaims, err |-> "token is malformed"]
    ELSE LET token == tokenString[1]
             k == getKeyFunc(keys, token) IN
         IF k.err # NoErr THEN [valid |-> FALSE, token |-> token, err |-> k.err]
         ELSE IF token.sig # k.key
         THEN [valid |-> FALSE, token |-> token, err |-> "token signature is invalid"]
         ELSE IF token.claims.exp.t \notin {"absent", "num"}
         THEN [valid |-> FALSE, token |-> token, err |-> "exp is invalid"]
         ELSE IF token.claims.exp.t = "num" /\ ~(t <= token.claims.exp.v)
         THEN [valid |-> FALSE, token |-> token, err |-> "token is expired"]
         ELSE [valid |-> TRUE, token |-> token, err |-> NoErr]

\* jwt.Parse(tokenString, v.getKeyFunc) of golang-jwt/jwt/v5 with its default
\* options: split and decode the token, ask the key function for the key,
\* verify the signature, then validate the registered claims (an exp claim
\* that is present must be numeric and later than the current time).
jwtParse(keys, t, tokenString) ==
    IF ~IsJWT(tokenString)
    THEN [valid |-> FALSE, token |-> NoClaims, err |-> "token is malformed"]
    ELSE LET token == tokenString[1]
             k == getKeyFunc(keys, token) IN
         IF k.err # NoErr THEN [valid |-> FALSE, token |-> token, err |-> k.err]
         ELSE IF token.sig # k.key
         THEN [valid |-> FALSE, token |-> token, err |-> "token signature is invalid"]
         ELSE IF token.claims.exp.t \notin {"absent", "num"}
         THEN [valid |-> FALSE, token |-> token, err |-> "exp is invalid"]
         ELSE IF token.claims.exp.t = "num" /\ ~(t < token.claims.exp.v)
         THEN [valid |-> FALSE, token |-> token, err |-> "token is expired"]
         ELSE [valid |-> TRUE, token |-> token, err |-> NoErr]

\* the named results of ValidateToken
Fail(e) == [claims |-> NoClaims, err |-> e]

\* a variant of ValidateToken that assigns claims before the group check
ValidateToken_claimsEarly(cfg, keys, t, tokenString) ==
    LET p == jwtParse(keys, t, tokenString) IN
    IF p.err # NoErr THEN Fail(p.err)
    ELSE IF ~p.valid THEN Fail("invalid token claims")
    ELSE LET mapClaims == p.token.claims IN
         IF verifyIssuer(cfg, mapClaims) # NoErr
         THEN Fail(verifyIssuer(cfg, mapClaims))
         ELSE IF verifyAudience(cfg, mapClaims) # NoErr
         THEN Fail(verifyAudience(cfg, mapClaims))
         ELSE IF verifyExpiration(t, mapClaims) # NoErr
         THEN Fail(verifyExpiration(t, mapClaims))
         ELSE [claims |-> mapClaims, err |-> verifyGroupMembership(cfg, mapClaims)]

\* a variant of ValidateToken that checks the audience before the issuer
ValidateToken_audienceFirst(cfg, keys, t, tokenString) ==
    LET p == jwtParse(keys, t, tokenString) IN
    IF p.err # NoErr THEN Fail(p.err)
    ELSE IF ~p.valid THEN Fail("invalid token claims")
    ELSE LET mapClaims == p.token.claims IN
         IF verifyAudience(cfg, mapClaims) # NoErr
         THEN Fail(verifyAudience(cfg, mapClaims))
         ELSE IF verifyIssuer(cfg, mapClaims) # NoErr
         THEN Fail(verifyIssuer(cfg, mapClaims))
         ELSE IF verifyExpiration(t, mapClaims) # NoErr
         THEN Fail(verifyExpiration(t, mapClaims))
         ELSE IF verifyGroupMembership(cfg, mapClaims) # NoErr
         THEN Fail(verifyGroupMembership(cfg, mapClaims))
         ELSE [claims |-> mapClaims, err |-> NoErr]

\* ValidateToken: parse, then issuer, audience, expiration and groups, each
\* returning the still-nil claims with its error; claims are set last
ValidateToken(cfg, keys, t, tokenString) ==
    LET p == jwtParse(keys, t, tokenString) IN
    IF p.err # NoErr THEN Fail(p.err)
    ELSE IF ~p.valid THEN Fail("invalid token claims")
    ELSE LET mapClaims == p.token.claims IN
         IF verifyIssuer(cfg, mapClaims) # NoErr
         THEN Fail(verifyIssuer(cfg, mapClaims))
         ELSE IF verifyAudience(cfg, mapClaims) # NoErr
         THEN Fail(verifyAudience(cfg, mapClaims))
         ELSE IF verifyExpiration(t, mapClaims) # NoErr
         THEN Fail(verifyExpiration(t, mapClaims))
         ELSE IF verifyGroupMembership(cfg, mapClaims) # NoErr
         THEN Fail(verifyGroupMembership(cfg, mapClaims))
         ELSE [claims |-> mapClaims, err |-> NoErr]

-----------------------------------------------------------------------------
(* The tokens and validators the checks range over *)

\* JOSE headers with their signer: sig names the key that made the signature
JoseHeaders ==
    { [alg |-> "RS256", kid |-> Str("k1"), sig |-> "k1"],
      [alg |-> "RS256", kid |-> Str("k2"), sig |-> "k2"],
      [alg |-> "RS256", kid |-> Str("k1"), sig |-> "forged"],
      [alg |-> "RS256", kid |-> Absent,    sig |-> "k1"],
      [alg |-> "HS256", kid |-> Str("k1"), sig |-> "k1"] }

IssValues == {Str(Issuer), Str(OtherURL), Absent}

AudValues ==
    { Str(Audience), Str(OtherURL),
      List(<<Str(OtherURL), Str(Audience)>>), List(<<Str(OtherURL)>>),
      List(<<Num(7), Str(Audience)>>), Absent }

ExpValues == {Absent, Str("soon")} \cup {Num(n) : n \in 1..MaxTime}

GroupValues ==
    { Absent, Str("engineering"), List(<<>>),
      List(<<Str("engineering"), Str("sre")>>), List(<<Str("finance")>>),
      List(<<Num(7), Str("ops")>>) }

ClaimSets ==
    [iss : IssValues, aud : AudValues, exp : ExpValues, groups : GroupValues,
     sub : {Str("alice")}, email : {Absent}]

JWTs == {JWT(h, cl) : h \in JoseHeaders, cl \in ClaimSets}

TokenStrings == {<<>>, <<W("garbage")>>} \cup {<<j>> : j \in JWTs}

AllowedGroupLists == {<<>>, <<"engineering">>, <<"sre", "ops">>}

Configs ==
    [IssuerURL : {Issuer}, Audience : {Audience}, AllowedGroups : AllowedGroupLists]

NoReq ==
    [path |-> "", header |-> <<>>, handler |-> "none", status |-> 0, body |-> "",
     error |-> "", vcalls |-> 0, verr |-> "not called", again |-> FALSE,
     ctx |-> [oidc_claims |-> NoClaims, user_email |-> Absent, user_id |-> Absent]]
NoRes == [claims |-> NoClaims, err |-> "not called"]
NoEnv ==
    [OIDC_ISSUER_URL |-> "", OIDC_AUDIENCE |-> "", OIDC_ALLOWED_GROUPS |-> <<>>,
     CLOUDFLARE_API_TOKEN |-> "", CLOUDFLARE_ZONE_ID |-> ""]
\* no refresh cycle has run and nothing holds the mutex
NoKs ==
    [pc |-> "idle", mux |-> "free", body |-> <<>>, old |-> {}, new |-> {},
     last |-> "none", readAt |-> "none"]
\* no client command runs
NoCli == [pc |-> "none"]

-----------------------------------------------------------------------------
(* SpecV: a Validator value, a clock reading and a token string are drawn,
   and ValidateToken is applied to them *)

InitV ==
    /\ phase = "unit"
    /\ env = NoEnv
    /\ config \in Configs
    /\ storage = "memory"
    /\ jwks \in SUBSET Kids
    /\ idp = [keys |-> {}, up |-> FALSE]
    /\ now \in 0..MaxTime
    /\ req = NoReq
    /\ tok \in TokenStrings
    /\ res = NoRes
    /\ rfr = NoKs
    /\ cli = NoCli

CallValidateToken ==
    /\ phase = "unit"
    /\ res = NoRes
    /\ res' = ValidateToken(config, jwks, now, tok)
    /\ UNCHANGED <<phase, env, config, storage, jwks, idp, now, req, tok, rfr, cli>>

NextV == CallValidateToken

SpecV == InitV /\ [][NextV]_vars

-----------------------------------------------------------------------------
(* Text operations of the Go standard library, on sequences of atoms *)

Comma == [c |-> "comma"]

\* index of the first occurrence of atom a in s, 0 when there is none
RECURSIVE IndexFrom(_, _, _)
IndexFrom(s, a, i) ==
    IF i > Len(s) THEN 0
    ELSE IF s[i] = a THEN i
    ELSE IndexFrom(s, a, i + 1)

\* strings.SplitN(s, sep, 2): cut at the first separator only
SplitN2(s, sep) ==
    LET i == IndexFrom(s, sep, 1) IN
    IF i = 0 THEN <<s>>
    ELSE <<SubSeq(s, 1, i - 1), SubSeq(s, i + 1, Len(s))>>

\* strings.Split(s, sep): cut at every separator
RECURSIVE Split(_, _)
Split(s, sep) ==
    LET i == IndexFrom(s, sep, 1) IN
    IF i = 0 THEN <<s>>
    ELSE <<SubSeq(s, 1, i - 1)>> \o Split(SubSeq(s, i + 1, Len(s)), sep)

\* strings.TrimSpace
RECURSIVE TrimSpace(_)
TrimSpace(s) ==
    IF s = <<>> THEN s
    ELSE IF Head(s) = Sp THEN TrimSpace(Tail(s))
    ELSE IF s[Len(s)] = Sp THEN TrimSpace(SubSeq(s, 1, Len(s) - 1))
    ELSE s

LowerWord(w) ==
    CASE w = "Bearer" -> "bearer"
      [] w = "BEARER" -> "bearer"
      [] w = "Basic" -> "basic"
      [] OTHER -> w

\* strings.ToLower
ToLower(s) ==
    [i \in 1..Len(s) |-> IF s[i].c = "word" THEN W(LowerWord(s[i].w)) ELSE s[i]]

\* the text of a sequence of words, spaces and commas as one string value
RECURSIVE Text(_)
Text(s) ==
    IF s = <<>> THEN ""
    ELSE (CASE Head(s).c = "word" -> Head(s).w
            [] Head(s).c = "sp" -> " "
            [] OTHER -> ",") \o Text(Tail(s))

-----------------------------------------------------------------------------
(* pkg/oidc Config and cmd/server.go start-up *)

\* a variant of TrimmedNonEmpty that keeps the entries that are empty
RECURSIVE TrimmedNonEmpty_keepEmpty(_)
TrimmedNonEmpty_keepEmpty(groups) ==
    IF groups = <<>> THEN <<>>
    ELSE <<Text(TrimSpace(Head(groups)))>> \o TrimmedNonEmpty_keepEmpty(Tail(groups))

RECURSIVE TrimmedNonEmpty(_)
\* the loop of LoadConfigFromEnv: trim every entry, keep the non-empty ones
TrimmedNonEmpty(groups) ==
    IF groups = <<>> THEN <<>>
    ELSE LET trimmed == TrimSpace(Head(groups)) IN
         (IF trimmed # <<>> THEN <<Text(trimmed)>> ELSE <<>>)
            \o TrimmedNonEmpty(Tail(groups))

\* LoadConfigFromEnv: issuer and audience as they are, the allowed groups
\* split at commas
LoadConfigFromEnv(e) ==
    [IssuerURL |-> e.OIDC_ISSUER_URL,
     Audience |-> e.OIDC_AUDIENCE,
     AllowedGroups |->
        IF e.OIDC_ALLOWED_GROUPS # <<>>
        THEN TrimmedNonEmpty(Split(e.OIDC_ALLOWED_GROUPS, Comma))
        ELSE <<>>]

NoConfig == [IssuerURL |-> "", Audience |-> "", AllowedGroups |-> <<>>]

GroupsEnvValues ==
    { <<>>,
      <<W("engineering")>>,
      <<Sp, W("sre"), Comma, Comma, Sp, W("ops"), Sp>>,
      <<Sp, Comma>> }

Environments ==
    [OIDC_ISSUER_URL : {"", Issuer},
     OIDC_AUDIENCE : {"", Audience},
     OIDC_ALLOWED_GROUPS : GroupsEnvValues,
     CLOUDFLARE_API_TOKEN : {"", "cf-token"},
     CLOUDFLARE_ZONE_ID : {"", "cf-zone"}]

\* a variant of NewValidator whose fallback storage is not empty
NewValidator_fallbackKeys(cfg, provider) ==
    IF provider.up
    THEN [storage |-> "http", jwks |-> provider.keys]
    ELSE [storage |-> "memory", jwks |-> provider.keys]

\* NewValidator: jwkset.NewStorageFromHTTP fetches the key set once; when
\* that fails the validator gets a new, empty memory storage instead
NewValidator(cfg, provider) ==
    IF provider.up
    THEN [storage |-> "http", jwks |-> provider.keys]
    ELSE [storage |-> "memory", jwks |-> {}]

-----------------------------------------------------------------------------
(* pkg/oidc Middleware and the gin router of cmd/server.go *)

NoCtx == [oidc_claims |-> NoClaims, user_email |-> Absent, user_id |-> Absent]

\* a variant of Middleware that answers 401 without aborting the chain
Middleware_noAbort(cfg, keys, t, authHeader) ==
    LET parts == SplitN2(authHeader, Sp)
        v == ValidateToken(cfg, keys, t, parts[2]) IN
    IF authHeader = <<>>
    THEN [next |-> TRUE, status |-> 401, error |-> "missing authorization header",
          vcalls |-> 0, verr |-> "not called", ctx |-> NoCtx]
    ELSE IF Len(parts) # 2 \/ ToLower(parts[1]) # <<W("bearer")>>
    THEN [next |-> TRUE, status |-> 401, error |-> "invalid authorization header format",
          vcalls |-> 0, verr |-> "not called", ctx |-> NoCtx]
    ELSE IF v.err # NoErr
    THEN [next |-> TRUE, status |-> 401, error |-> "invalid token: " \o v.err,
          vcalls |-> 1, verr |-> v.err, ctx |-> NoCtx]
    ELSE [next |-> TRUE, status |-> 0, error |-> "",
          vcalls |-> 1, verr |-> NoErr,
          ctx |-> [oidc_claims |-> v.claims,
                   user_email |-> IF v.claims.email.t = "str" THEN v.claims.email ELSE Absent,
                   user_id |-> IF v.claims.sub.t = "str" THEN v.claims.sub ELSE Absent]]

\* a variant of Middleware that validates whatever follows the scheme word,
\* also when the header has no second part
Middleware_validateAlways(cfg, keys, t, authHeader) ==
    LET parts == SplitN2(authHeader, Sp)
        tokenString == IF Len(parts) = 2 THEN parts[2] ELSE <<>>
        v == ValidateToken(cfg, keys, t, tokenString) IN
    IF authHeader = <<>>
    THEN [next |-> FALSE, status |-> 401, error |-> "missing authorization header",
          vcalls |-> 0, verr |-> "not called", ctx |-> NoCtx]
    ELSE IF v.err # NoErr
    THEN [next |-> FALSE, status |-> 401, error |-> "invalid token: " \o v.err,
          vcalls |-> 1, verr |-> v.err, ctx |-> NoCtx]
    ELSE [next |-> TRUE, status |-> 0, error |-> "",
          vcalls |-> 1, verr |-> NoErr,
          ctx |-> [oidc_claims |-> v.claims,
                   user_email |-> IF v.claims.email.t = "str" THEN v.claims.email ELSE Absent,
                   user_id |-> IF v.claims.sub.t = "str" THEN v.claims.sub ELSE Absent]]

\* a variant of Middleware that sets user_id to the sub claim whatever its
\* type
Middleware_subAnyType(cfg, keys, t, authHeader) ==
    LET parts == SplitN2(authHeader, Sp)
        v == ValidateToken(cfg, keys, t, parts[2]) IN
    IF authHeader = <<>>
    THEN [next |-> FALSE, status |-> 401, error |-> "missing authorization header",
          vcalls |-> 0, verr |-> "not called", ctx |-> NoCtx]
    ELSE IF Len(parts) # 2 \/ ToLower(parts[1]) # <<W("bearer")>>
    THEN [next |-> FALSE, status |-> 401, error |-> "invalid authorization header format",
          vcalls |-> 0, verr |-> "not called", ctx |-> NoCtx]
    ELSE IF v.err # NoErr
    THEN [next |-> FALSE, status |-> 401, error |-> "invalid token: " \o v.err,
          vcalls |-> 1, verr |-> v.err, ctx |-> NoCtx]
    ELSE [next |-> TRUE, status |-> 0, error |-> "",
          vcalls |-> 1, verr |-> NoErr,
          ctx |-> [oidc_claims |-> v.claims,
                   user_email |-> IF v.claims.email.t = "str" THEN v.claims.email ELSE Absent,
                   user_id |-> v.claims.sub]]

\* Middleware: the handler function; next says whether ctx.Next() was reached
Middleware(cfg, keys, t, authHeader) ==
    LET parts == SplitN2(authHeader, Sp)
        v == ValidateToken(cfg, keys, t, parts[2]) IN
    IF authHeader = <<>>
    THEN [next |-> FALSE, status |-> 401, error |-> "missing authorization header",
          vcalls |-> 0, verr |-> "not called", ctx |-> NoCtx]
    ELSE IF Len(parts) # 2 \/ ToLower(parts[1]) # <<W("bearer")>>
    THEN [next |-> FALSE, status |-> 401, error |-> "invalid authorization header format",
          vcalls |-> 0, verr |-> "not called", ctx |-> NoCtx]
    ELSE IF v.err # NoErr
    THEN [next |-> FALSE, status |-> 401, error |-> "invalid token: " \o v.err,
          vcalls |-> 1, verr |-> v.err, ctx |-> NoCtx]
    ELSE [next |-> TRUE, status |-> 0, error |-> "",
          vcalls |-> 1, verr |-> NoErr,
          ctx |-> [oidc_claims |-> v.claims,
                   user_email |-> IF v.claims.email.t = "str" THEN v.claims.email ELSE Absent,
                   user_id |-> IF v.claims.sub.t = "str" THEN v.claims.sub ELSE Absent]]

\* the routes serverCmd.Run registers: /status on the router, the API
\* handlers on the /v1 group that uses the middleware
PublicRoutes == {"/status"}
ProtectedRoutes == {"/v1/auth-check", "/v1/cluster/describe/:cluster"}
Paths == PublicRoutes \cup ProtectedRoutes \cup {"/v1/nope"}

\* a variant of AuthCheckHandler that refuses
AuthCheckHandler_forbidden == [status |-> 403, body |-> "forbidden"]

\* AuthCheckHandler: ctx.JSON(http.StatusOK, {"status": "authenticated", ...}),
\* whatever the request
AuthCheckHandler == [status |-> 200, body |-> "authenticated"]

\* the statuses a handler can answer with: /status and AuthCheckHandler
\* always answer 200, DescribeClusterHandler also 400 and 500
HandlerStatuses(path) ==
    IF path = "/v1/cluster/describe/:cluster" THEN {200, 400, 500}
    ELSE IF path = "/v1/auth-check" THEN {AuthCheckHandler.status}
    ELSE {200}

\* the "status" member of the JSON body a handler answers ("" where the
\* body has none)
HandlerBody(path) ==
    IF path = "/v1/auth-check" THEN AuthCheckHandler.body
    ELSE IF path = "/status" THEN "ok"
    ELSE ""

\* the router's answer to one request: the handlers of the matched route
\* run in order, and a route nobody registered is answered 404
Serve(cfg, keys, t, path, authHeader, hstatus) ==
    LET m == Middleware(cfg, keys, t, authHeader) IN
    IF path \in PublicRoutes
    THEN [path |-> path, header |-> authHeader, handler |-> path, status |-> hstatus,
          body |-> HandlerBody(path),
          error |-> "", vcalls |-> 0, verr |-> "not called", ctx |-> NoCtx]
    ELSE IF path \in ProtectedRoutes
    THEN [path |-> path, header |-> authHeader,
          handler |-> IF m.next THEN path ELSE "none",
          status |-> IF m.next THEN hstatus ELSE m.status,
          body |-> IF m.next THEN HandlerBody(path) ELSE "",
          error |-> m.error, vcalls |-> m.vcalls, verr |-> m.verr, ctx |-> m.ctx]
    ELSE [path |-> path, header |-> authHeader, handler |-> "none", status |-> 404,
          body |-> "", error |-> "", vcalls |-> 0, verr |-> "not called", ctx |-> NoCtx]

-----------------------------------------------------------------------------
(* Spec: the server process, its key store, the identity provider, the
   clock and the requests it answers *)

\* the tokens sent to the server: every header shape with valid claims, the
\* claim combinations under a good header, and the sub/email variants
ValidClaims ==
    [iss |-> Str(Issuer), aud |-> Str(Audience), exp |-> Num(MaxTime),
     groups |-> List(<<Str("engineering"), Str("sre")>>),
     sub |-> Str("alice"), email |-> Absent]

ServerClaimSets ==
    [iss : {Str(Issuer), Str(OtherURL)},
     aud : {Str(Audience), List(<<Str(OtherURL), Str(Audience)>>), List(<<Str(OtherURL)>>)},
     exp : {Num(n) : n \in 1..MaxTime},
     groups : {Absent, List(<<Str("engineering"), Str("sre")>>), List(<<Str("finance")>>)},
     sub : {Str("alice")}, email : {Absent}]

ServerJWTs ==
    {JWT(h, ValidClaims) : h \in JoseHeaders}
    \cup {JWT([alg |-> "RS256", kid |-> Str("k1"), sig |-> "k1"], cl) : cl \in ServerClaimSets}
    \cup {JWT([alg |-> "RS256", kid |-> Str("k1"), sig |-> "k1"],
              [ValidClaims EXCEPT !.sub = su, !.email = em]) :
            su \in {Str("alice"), Absent, Num(7)},
            em \in {Str("alice@example.com"), Absent, Num(7)}}

AuthHeaders ==
    { <<>>, <<W("Bearer")>>, <<W("Bearer"), Sp>>,
      <<W("Basic"), Sp, W("dXNlcjpwdw")>>, <<W("Bearer"), Sp, W("garbage")>>,
      <<JWT([alg |-> "RS256", kid |-> Str("k1"), sig |-> "k1"], ValidClaims)>>,
      <<W("bearer"), Sp, JWT([alg |-> "RS256", kid |-> Str("k1"), sig |-> "k1"], ValidClaims)>>,
      <<W("Bearer"), Sp, Sp, JWT([alg |-> "RS256", kid |-> Str("k1"), sig |-> "k1"], ValidClaims)>> }
    \cup {<<W("Bearer"), Sp, j>> : j \in ServerJWTs}

KeySets == (SUBSET Kids) \ {{}}

Init ==
    /\ phase = "boot"
    /\ env \in Environments
    /\ config = NoConfig
    /\ storage = "none"
    /\ jwks = {}
    /\ idp \in [keys : KeySets, up : BOOLEAN]
    /\ now = 0
    /\ req = NoReq
    /\ tok = <<>>
    /\ res = NoRes
    /\ rfr = NoKs
    /\ cli = NoCli

\* a variant of ServerLoadConfig that does not require the issuer and the
\* audience
ServerLoadConfig_noOIDCCheck ==
    /\ phase = "boot"
    /\ LET oidcConfig == LoadConfigFromEnv(env) IN
       IF \/ env.CLOUDFLARE_API_TOKEN = ""
          \/ env.CLOUDFLARE_ZONE_ID = ""
       THEN /\ phase' = "fatal"
            /\ UNCHANGED config
       ELSE /\ phase' = "configured"
            /\ config' = IF Len(oidcConfig.AllowedGroups) = 0
                         THEN [oidcConfig EXCEPT !.AllowedGroups = <<"engineering">>]
                         ELSE oidcConfig
    /\ UNCHANGED <<env, storage, jwks, idp, now, req, tok, res, rfr, cli>>

\* serverCmd.Run up to the logger: load the configuration, stop the process
\* when a required variable is empty, default the allowed groups
ServerLoadConfig ==
    /\ phase = "boot"
    /\ LET oidcConfig == LoadConfigFromEnv(env) IN
       IF \/ oidcConfig.IssuerURL = ""
          \/ oidcConfig.Audience = ""
          \/ env.CLOUDFLARE_API_TOKEN = ""
          \/ env.CLOUDFLARE_ZONE_ID = ""
       THEN /\ phase' = "fatal"
            /\ UNCHANGED config
       ELSE /\ phase' = "configured"
            /\ config' = IF Len(oidcConfig.AllowedGroups) = 0
                         THEN [oidcConfig EXCEPT !.AllowedGroups = <<"engineering">>]
                         ELSE oidcConfig
    /\ UNCHANGED <<env, storage, jwks, idp, now, req, tok, res, rfr, cli>>

\* serverCmd.Run from NewValidator to router.Run: build the validator (with
\* its first key fetch), register the routes, listen
ServerNewValidator ==
    /\ phase = "configured"
    /\ LET v == NewValidator(config, idp) IN
       /\ storage' = v.storage
       /\ jwks' = v.jwks
    /\ phase' = "serving"
    /\ UNCHANGED <<env, config, idp, now, req, tok, res, rfr, cli>>

\* the refresh goroutine of the HTTP storage, once per RefreshInterval: a
\* successful fetch replaces the key set, a failed one is only logged
Refresh ==
    /\ phase = "serving"
    /\ storage = "http"
    /\ jwks' = IF idp.up THEN idp.keys ELSE jwks
    /\ UNCHANGED <<phase, env, config, storage, idp, now, req, tok, res, rfr, cli>>

\* the identity provider rotates its signing keys
IdpRotate ==
    /\ phase = "serving"
    /\ \E ks \in KeySets \ {idp.keys} : idp' = [idp EXCEPT !.keys = ks]
    /\ UNCHANGED <<phase, env, config, storage, jwks, now, req, tok, res, rfr, cli>>

\* the identity provider becomes unreachable, or reachable again
IdpReachability ==
    /\ phase = "serving"
    /\ idp' = [idp EXCEPT !.up = ~@]
    /\ UNCHANGED <<phase, env, config, storage, jwks, now, req, tok, res, rfr, cli>>

\* a second passes
Tick ==
    /\ phase = "serving"
    /\ now < MaxTime
    /\ now' = now + 1
    /\ UNCHANGED <<phase, env, config, storage, jwks, idp, req, tok, res, rfr, cli>>

\* a client sends a request and the router answers it
HandleRequest ==
    /\ phase = "serving"
    /\ req = NoReq
    /\ \E path \in Paths, authHeader \in AuthHeaders :
          \E hstatus \in HandlerStatuses(path) :
             req' = [again |-> FALSE] @@ Serve(config, jwks, now, path, authHeader, hstatus)
    /\ UNCHANGED <<phase, env, config, storage, jwks, idp, now, tok, res, rfr, cli>>

\* the client sends the same request once more; again records that the
\* request before it reached the protected handler
ResendRequest ==
    /\ phase = "serving"
    /\ req # NoReq
    /\ ~req.again
    /\ \E hstatus \in HandlerStatuses(req.path) :
          req' = [again |-> req.handler \in ProtectedRoutes]
                    @@ Serve(config, jwks, now, req.path, req.header, hstatus)
    /\ UNCHANGED <<phase, env, config, storage, jwks, idp, now, tok, res, rfr, cli>>

\* the client has its answer and goes away
ClientDone ==
    /\ phase = "serving"
    /\ req # NoReq
    /\ req' = NoReq
    /\ UNCHANGED <<phase, env, config, storage, jwks, idp, now, tok, res, rfr, cli>>

Next ==
    \/ ServerLoadConfig
    \/ ServerNewValidator
    \/ Refresh
    \/ IdpRotate
    \/ IdpReachability
    \/ Tick
    \/ HandleRequest
    \/ ResendRequest
    \/ ClientDone

Spec == Init /\ [][Next]_vars

-----------------------------------------------------------------------------
(* SpecK: the same server with the HTTP storage of jwkset taken step by
   step. The refresh goroutine fetches the key set document, takes the write
   lock of the storage, empties the set, writes the fetched keys one by one
   and releases the lock; KeyRead, called from getKeyFunc, holds the read
   lock of the same mutex while it scans the set. *)

\* the keys of a fetched key set document, in the order of the document
RECURSIVE KeysOf(_)
KeysOf(S) ==
    IF S = {} THEN <<>>
    ELSE LET k == CHOOSE x \in S : TRUE IN <<k>> \o KeysOf(S \ {k})

\* a variant of refreshFetch in which a failed fetch empties the key set
refreshFetch_clearOnError(set, k, provider) ==
    IF provider.up
    THEN [set |-> set, rfr |-> [k EXCEPT !.pc = "fetched", !.body = KeysOf(provider.keys)]]
    ELSE [set |-> {}, rfr |-> [k EXCEPT !.last = "failed"]]

\* one cycle of the refresh goroutine up to the response: a failed fetch is
\* handed to RefreshErrorHandler, which logs it, and nothing else happens
refreshFetch(set, k, provider) ==
    IF provider.up
    THEN [set |-> set, rfr |-> [k EXCEPT !.pc = "fetched", !.body = KeysOf(provider.keys)]]
    ELSE [set |-> set, rfr |-> [k EXCEPT !.last = "failed"]]

\* a variant of CanRLock for a storage without a mutex
CanRLock_noMutex(k) == TRUE

\* KeyRead gets the read lock only while no refresh holds the write lock
CanRLock(k) == k.mux = "free"

\* the tokens the concurrent requests carry: valid ones, signed by each key
KTokens ==
    {<<JWT([alg |-> "RS256", kid |-> Str(k), sig |-> k], ValidClaims)>> : k \in Kids}

\* the refresh timer fires and the goroutine fetches the key set document
RefreshFetch ==
    /\ phase = "serving"
    /\ storage = "http"
    /\ rfr.pc = "idle"
    /\ LET r == refreshFetch(jwks, rfr, idp) IN
       /\ jwks' = r.set
       /\ rfr' = r.rfr
    /\ UNCHANGED <<phase, env, config, storage, idp, now, req, tok, res, cli>>

\* the goroutine takes the write lock and empties the set
RefreshLock ==
    /\ phase = "serving"
    /\ rfr.pc = "fetched"
    /\ rfr.mux = "free"
    /\ rfr' = [rfr EXCEPT !.pc = "writing", !.mux = "locked",
                        !.old = jwks, !.new = Range(rfr.body)]
    /\ jwks' = {}
    /\ UNCHANGED <<phase, env, config, storage, idp, now, req, tok, res, cli>>

\* the goroutine writes the next key of the document into the set
RefreshWrite ==
    /\ phase = "serving"
    /\ rfr.pc = "writing"
    /\ rfr.body # <<>>
    /\ jwks' = jwks \cup {Head(rfr.body)}
    /\ rfr' = [rfr EXCEPT !.body = Tail(rfr.body)]
    /\ UNCHANGED <<phase, env, config, storage, idp, now, req, tok, res, cli>>

\* every key is written: the goroutine releases the lock
RefreshUnlock ==
    /\ phase = "serving"
    /\ rfr.pc = "writing"
    /\ rfr.body = <<>>
    /\ rfr' = [rfr EXCEPT !.pc = "idle", !.mux = "free", !.last = "ok"]
    /\ UNCHANGED <<phase, env, config, storage, jwks, idp, now, req, tok, res, cli>>

\* a request's ValidateToken runs; its KeyRead scans the set under the read
\* lock; readAt records where the refresh goroutine stood at that moment
KeyLookup ==
    /\ phase = "serving"
    /\ res = NoRes
    /\ CanRLock(rfr)
    /\ \E t \in KTokens :
          /\ tok' = t
          /\ res' = ValidateToken(config, jwks, now, t)
    /\ rfr' = [rfr EXCEPT !.readAt = rfr.pc]
    /\ UNCHANGED <<phase, env, config, storage, jwks, idp, now, req, cli>>

\* the request is answered
LookupDone ==
    /\ phase = "serving"
    /\ res # NoRes
    /\ res' = NoRes
    /\ tok' = <<>>
    /\ UNCHANGED <<phase, env, config, storage, jwks, idp, now, req, rfr, cli>>

NextK ==
    \/ ServerLoadConfig
    \/ ServerNewValidator
    \/ RefreshFetch
    \/ RefreshLock
    \/ RefreshWrite
    \/ RefreshUnlock
    \/ IdpRotate
    \/ IdpReachability
    \/ KeyLookup
    \/ LookupDone

SpecK == Init /\ [][NextK]_vars

-----------------------------------------------------------------------------
(* The client: cmd/auth_common.go, pkg/config and the auth-check command.
   URLs, tokens and error texts are strings; the process environment is a
   record of the variables the client reads, "" for an unset one. *)

\* strings.TrimSuffix(s, suffix)
TrimSuffix(s, suffix) ==
    IF /\ Len(s) >= Len(suffix)
       /\ SubSeq(s, Len(s) - Len(suffix) + 1, Len(s)) = suffix
    THEN SubSeq(s, 1, Len(s) - Len(suffix))
    ELSE s

\* strings.Contains(s, substr)
Contains(s, substr) ==
    \E i \in 1..(Len(s) + 1) :
        /\ i + Len(substr) - 1 <= Len(s)
        /\ SubSeq(s, i, i + Len(substr) - 1) = substr

\* getConfigValue: the flag when it is set, else the environment variable
getConfigValue(flagValue, envValue) ==
    IF flagValue # "" THEN flagValue ELSE envValue

\* Config.GetClusterEnvironment: the mapped environment, else the default
\* environment, else the cluster name
GetClusterEnvironment(c, clusterName) ==
    IF clusterName \in DOMAIN c.Clusters THEN c.Clusters[clusterName].Environment
    ELSE IF c.DefaultEnvironment # "" THEN c.DefaultEnvironment
    ELSE clusterName

\* Config.GetClusterServerURL: the server URL configured for the cluster
GetClusterServerURL(c, clusterName) ==
    IF clusterName \in DOMAIN c.Clusters THEN c.Clusters[clusterName].ServerURL
    ELSE ""

\* a variant of getClusterSuffix in which the configuration file wins over
\* K8SCTL_CLUSTER_SUFFIX
getClusterSuffix_fileFirst(e, file, clusterName) ==
    IF file.err = NoErr THEN GetClusterEnvironment(file.cfg, clusterName)
    ELSE IF e.K8SCTL_CLUSTER_SUFFIX # "" THEN e.K8SCTL_CLUSTER_SUFFIX
    ELSE clusterName

\* getClusterSuffix: K8SCTL_CLUSTER_SUFFIX, else the configuration file (when
\* loadConfig succeeds), else the cluster name
getClusterSuffix(e, file, clusterName) ==
    IF e.K8SCTL_CLUSTER_SUFFIX # "" THEN e.K8SCTL_CLUSTER_SUFFIX
    ELSE IF file.err = NoErr THEN GetClusterEnvironment(file.cfg, clusterName)
    ELSE clusterName

\* fmt.Sprintf("https://k8sctl-%s.example.com", suffix)
ServerURLOf(suffix) == "https://k8sctl-" \o suffix \o ".example.com"

\* getServerBaseURL: K8SCTL_SERVER_URL, else the cluster's server_url of the
\* configuration file, else the URL made from the cluster suffix
getServerBaseURL(e, file, clusterName) ==
    IF e.K8SCTL_SERVER_URL # "" THEN TrimSuffix(e.K8SCTL_SERVER_URL, "/")
    ELSE IF file.err = NoErr /\ GetClusterServerURL(file.cfg, clusterName) # ""
    THEN TrimSuffix(GetClusterServerURL(file.cfg, clusterName), "/")
    ELSE ServerURLOf(getClusterSuffix(e, file, clusterName))

\* a variant of targetAudience that looks at the cluster before the override
targetAudience_clusterFirst(e, file, cluster) ==
    IF cluster # "" THEN ServerURLOf(getClusterSuffix(e, file, cluster))
    ELSE IF e.K8SCTL_AUDIENCE # "" THEN e.K8SCTL_AUDIENCE
    ELSE "https://k8sctl-dev.example.com"

\* getOIDCToken, the target audience: K8SCTL_AUDIENCE, else the URL made
\* from the suffix of the cluster, else the dev URL
targetAudience(e, file, cluster) ==
    IF e.K8SCTL_AUDIENCE # "" THEN e.K8SCTL_AUDIENCE
    ELSE IF cluster # "" THEN ServerURLOf(getClusterSuffix(e, file, cluster))
    ELSE "https://k8sctl-dev.example.com"

\* a variant of signerConfig that signs the assertion for the target audience
signerConfig_targetAsInstance(lib, flags, e, file) ==
    LET dexURLValue == getConfigValue(flags.dexURL, e.DEX_URL)
        c == IF dexURLValue # ""
             THEN [lib EXCEPT !.DexURL = dexURLValue, !.DexInstanceID = dexURLValue]
             ELSE lib IN
    [c EXCEPT !.TargetAudience = targetAudience(e, file, flags.cluster),
              !.DexInstanceID = targetAudience(e, file, flags.cluster)]

\* getOIDCToken up to the signer: the configuration of kubectl.LoadConfig()
\* with the Dex URL and instance id overridden when --dex-url or DEX_URL is
\* set, and with the target audience
signerConfig(lib, flags, e, file) ==
    LET dexURLValue == getConfigValue(flags.dexURL, e.DEX_URL)
        c == IF dexURLValue # ""
             THEN [lib EXCEPT !.DexURL = dexURLValue, !.DexInstanceID = dexURLValue]
             ELSE lib IN
    [c EXCEPT !.TargetAudience = targetAudience(e, file, flags.cluster)]

\* http.StatusOK
StatusOK == 200

\* the statuses the token endpoint answers with
DexStatuses == {StatusOK, 400, 500}

\* fmt.Sprintf("%d", resp.StatusCode)
StatusText(n) ==
    CASE n = 200 -> "200" [] n = 400 -> "400" [] n = 500 -> "500"

\* no *kubectl.DexTokenResponse
NoTokenResp == [t |-> "nil"]

\* the body of a response: its text and what json.Unmarshal into a
\* DexTokenResponse makes of that text
TokenBody(id, access) ==
    [text |-> "{id_token:" \o id \o ",access_token:" \o access \o "}",
     doc |-> [valid |-> TRUE, IDToken |-> id, AccessToken |-> access]]

DexBodies ==
    {TokenBody(id, access) : id \in {"", "idtok"}, access \in {"", "acctok"}}
    \cup {[text |-> "{error:invalid_grant}",
           doc |-> [valid |-> TRUE, IDToken |-> "", AccessToken |-> ""]],
          [text |-> "<html>bad gateway</html>",
           doc |-> [valid |-> FALSE, IDToken |-> "", AccessToken |-> ""]]}

\* what client.Do and io.ReadAll give for the token request: a transport
\* error, a body that cannot be read, or a status with a body
DexResponses ==
    {[kind |-> k, status |-> 0, body |-> TokenBody("", "")] : k \in {"dial", "read"}}
    \cup [kind : {"ok"}, status : DexStatuses, body : DexBodies]

\* the token request: its URL and the form fields that depend on the
\* configuration; the audience field is "" when the form has none
exchangeRequest(conf, sshJWT) ==
    [url |-> TrimSuffix(conf.DexURL, "/") \o "/token",
     connector_id |-> "ssh",
     subject_token |-> sshJWT,
     audience |-> IF conf.TargetAudience # "" THEN conf.TargetAudience ELSE ""]

\* a variant of exchangeJWTForOIDC that sends the request again after a
\* transport error
exchangeJWTForOIDC_retry(conf, sshJWT, response) ==
    LET r == exchangeRequest(conf, sshJWT) IN
    IF response.kind = "dial"
    THEN [tokenResp |-> NoTokenResp, sent |-> <<r, r>>,
          err |-> "failed to exchange with Dex: connection refused"]
    ELSE IF response.kind = "read"
    THEN [tokenResp |-> NoTokenResp, sent |-> <<r>>,
          err |-> "failed to read token response: unexpected EOF"]
    ELSE IF response.status # StatusOK
    THEN [tokenResp |-> NoTokenResp, sent |-> <<r>>,
          err |-> "SSH authentication failed (" \o StatusText(response.status)
                     \o "): " \o response.body.text]
    ELSE IF ~response.body.doc.valid
    THEN [tokenResp |-> NoTokenResp, sent |-> <<r>>,
          err |-> "failed to parse token response: invalid character"]
    ELSE [tokenResp |-> [IDToken |-> response.body.doc.IDToken,
                         AccessToken |-> response.body.doc.AccessToken],
          sent |-> <<r>>, err |-> NoErr]

\* a variant of exchangeJWTForOIDC whose status error leaves the body out
exchangeJWTForOIDC_noBody(conf, sshJWT, response) ==
    LET r == exchangeRequest(conf, sshJWT) IN
    IF response.kind = "dial"
    THEN [tokenResp |-> NoTokenResp, sent |-> <<r>>,
          err |-> "failed to exchange with Dex: connection refused"]
    ELSE IF response.kind = "read"
    THEN [tokenResp |-> NoTokenResp, sent |-> <<r>>,
          err |-> "failed to read token response: unexpected EOF"]
    ELSE IF response.status # StatusOK
    THEN [tokenResp |-> NoTokenResp, sent |-> <<r>>,
          err |-> "SSH authentication failed (" \o StatusText(response.status) \o ")"]
    ELSE IF ~response.body.doc.valid
    THEN [tokenResp |-> NoTokenResp, sent |-> <<r>>,
          err |-> "failed to parse token response: invalid character"]
    ELSE [tokenResp |-> [IDToken |-> response.body.doc.IDToken,
                         AccessToken |-> response.body.doc.AccessToken],
          sent |-> <<r>>, err |-> NoErr]

\* exchangeJWTForOIDC: one POST of the form to the token endpoint; a
\* transport error, an unreadable body, a status other than 200 and a body
\* that does not decode each return an error and no token response
exchangeJWTForOIDC(conf, sshJWT, response) ==
    LET r == exchangeRequest(conf, sshJWT) IN
    IF response.kind = "dial"
    THEN [tokenResp |-> NoTokenResp, sent |-> <<r>>,
          err |-> "failed to exchange with Dex: connection refused"]
    ELSE IF response.kind = "read"
    THEN [tokenResp |-> NoTokenResp, sent |-> <<r>>,
          err |-> "failed to read token response: unexpected EOF"]
    ELSE IF response.status # StatusOK
    THEN [tokenResp |-> NoTokenResp, sent |-> <<r>>,
          err |-> "SSH authentication failed (" \o StatusText(response.status)
                     \o "): " \o response.body.text]
    ELSE IF ~response.body.doc.valid
    THEN [tokenResp |-> NoTokenResp, sent |-> <<r>>,
          err |-> "failed to parse token response: invalid character"]
    ELSE [tokenResp |-> [IDToken |-> response.body.doc.IDToken,
                         AccessToken |-> response.body.doc.AccessToken],
          sent |-> <<r>>, err |-> NoErr]

\* a variant of selectToken that prefers the access token
selectToken_accessFirst(tokenResp) ==
    LET token == IF tokenResp.AccessToken = "" THEN tokenResp.IDToken
                 ELSE tokenResp.AccessToken IN
    IF token = "" THEN [token |-> "", err |-> "no token received from Dex"]
    ELSE [token |-> token, err |-> NoErr]

\* getOIDCToken after the exchange: the ID token, else the access token,
\* else an error
selectToken(tokenResp) ==
    LET token == IF tokenResp.IDToken = "" THEN tokenResp.AccessToken
                 ELSE tokenResp.IDToken IN
    IF token = "" THEN [token |-> "", err |-> "no token received from Dex"]
    ELSE [token |-> token, err |-> NoErr]

\* makeAuthenticatedRequest: the request with its Authorization header
makeAuthenticatedRequest(method, urlStr, body, token) ==
    [method |-> method, url |-> urlStr, body |-> body,
     Authorization |-> "Bearer " \o token]

\* a variant of authCheckRun that sends the request whatever getOIDCToken
\* returned
authCheckRun_noFatal(c) ==
    [c EXCEPT !.pc = "sent",
              !.apiReqs = <<makeAuthenticatedRequest("POST",
                  getServerBaseURL(c.environ, c.file, c.flags.cluster) \o "/v1/auth-check",
                  "", c.token)>>]

\* authCheckCmd.Run after getOIDCToken: log.Fatalf on an error, else one
\* POST to <base URL>/v1/auth-check
authCheckRun(c) ==
    IF c.err # NoErr THEN [c EXCEPT !.pc = "fatal"]
    ELSE [c EXCEPT !.pc = "sent",
                   !.apiReqs = <<makeAuthenticatedRequest("POST",
                       getServerBaseURL(c.environ, c.file, c.flags.cluster) \o "/v1/auth-check",
                       "", c.token)>>]

\* getOIDCToken from the exchange to its return: an exchange error is
\* wrapped and returned with the empty token, else the token is selected
getOIDCTokenExchange(c, response) ==
    LET x == exchangeJWTForOIDC(c.config, c.sshJWT, response)
        sel == selectToken(x.tokenResp) IN
    [c EXCEPT !.pc = "returned",
              !.resp = response,
              !.dexReqs = @ \o x.sent,
              !.exch = [tokenResp |-> x.tokenResp, err |-> x.err],
              !.token = IF x.err # NoErr THEN "" ELSE sel.token,
              !.err = IF x.err # NoErr
                      THEN "failed to exchange JWT with Dex: " \o x.err
                      ELSE sel.err]

-----------------------------------------------------------------------------
(* SpecC: one run of the auth-check command. The flags, the environment,
   the configuration file and the result of kubectl.LoadConfig() are drawn
   at the start; the signer and the token endpoint answer as they like. *)

ClusterNames == {"", "prod-east", "lab"}

Flags == [cluster : ClusterNames, dexURL : {"", "https://dex.flag.example.com"}]

ClientEnvironments ==
    [DEX_URL : {"", "https://dex.example.com/"},
     K8SCTL_AUDIENCE : {"", "https://svc.example.com"},
     K8SCTL_CLUSTER_SUFFIX : {"", "stg"},
     K8SCTL_SERVER_URL : {"", "https://srv.example.com/"}]

\* what loadConfig returns: an error for a file that cannot be read or
\* parsed, the built-in configuration when there is no file, or a file
NoFile == [Clusters |-> <<>>, DefaultEnvironment |-> "dev"]

ConfigFiles ==
    {[err |-> "failed to parse config file", cfg |-> [Clusters |-> <<>>, DefaultEnvironment |-> ""]],
     [err |-> NoErr, cfg |-> NoFile],
     [err |-> NoErr,
      cfg |-> [Clusters |-> ("prod-east" :> [Environment |-> "prod", ServerURL |-> ""]),
               DefaultEnvironment |-> ""]],
     [err |-> NoErr,
      cfg |-> [Clusters |-> ("prod-east" :> [Environment |-> "prod",
                                             ServerURL |-> "https://k8s.prod.example.com/"]),
               DefaultEnvironment |-> "dev"]]}

\* what kubectl.LoadConfig() returns, as far as getOIDCToken keeps it
LibConfigs ==
    [DexURL : {"https://dex.lib.example.com"},
     DexInstanceID : {"https://dex.lib.example.com", "dex-instance-1"},
     TargetAudience : {""}]

\* no assertion
NoJWT == [t |-> "nil"]

\* no response of the token endpoint
NoResp == [kind |-> "none", status |-> 0, body |-> TokenBody("", "")]

\* the runs of the command before getOIDCToken is called
ClientRuns ==
    [pc : {"start"}, flags : Flags, environ : ClientEnvironments,
     file : ConfigFiles, lib : LibConfigs,
     config : {[DexURL |-> "", DexInstanceID |-> "", TargetAudience |-> ""]},
     sshJWT : {NoJWT}, signs : {0}, dexReqs : {<<>>}, resp : {NoResp},
     exch : {[tokenResp |-> NoTokenResp, err |-> "not called"]},
     token : {""}, err : {NoErr}, apiReqs : {<<>>}]

InitC ==
    /\ phase = "client"
    /\ env = NoEnv
    /\ config = NoConfig
    /\ storage = "none"
    /\ jwks = {}
    /\ idp = [keys |-> {}, up |-> FALSE]
    /\ now = 0
    /\ req = NoReq
    /\ tok = <<>>
    /\ res = NoRes
    /\ rfr = NoKs
    /\ cli \in ClientRuns

\* getOIDCToken up to kubectl.CreateSSHSignedJWT: the configuration is
\* built and the signer makes the assertion, whose audience is the
\* DexInstanceID of the configuration, or fails
GetOIDCTokenSign ==
    /\ phase = "client"
    /\ cli.pc = "start"
    /\ \E signed \in BOOLEAN :
          LET c == signerConfig(cli.lib, cli.flags, cli.environ, cli.file) IN
          cli' = IF signed
                 THEN [cli EXCEPT !.pc = "exchange", !.config = c, !.signs = @ + 1,
                                  !.sshJWT = [t |-> "jwt", aud |-> c.DexInstanceID]]
                 ELSE [cli EXCEPT !.pc = "returned", !.config = c, !.signs = @ + 1,
                                  !.token = "",
                                  !.err = "failed to create SSH-signed JWT: no SSH keys"]
    /\ UNCHANGED <<phase, env, config, storage, jwks, idp, now, req, tok, res, rfr>>

\* getOIDCToken from exchangeJWTForOIDC to its return
GetOIDCTokenExchange ==
    /\ phase = "client"
    /\ cli.pc = "exchange"
    /\ \E response \in DexResponses : cli' = getOIDCTokenExchange(cli, response)
    /\ UNCHANGED <<phase, env, config, storage, jwks, idp, now, req, tok, res, rfr>>

\* authCheckCmd.Run after getOIDCToken returned
AuthCheckRun ==
    /\ phase = "client"
    /\ cli.pc = "returned"
    /\ cli' = authCheckRun(cli)
    /\ UNCHANGED <<phase, env, config, storage, jwks, idp, now, req, tok, res, rfr>>

NextC ==
    \/ GetOIDCTokenSign
    \/ GetOIDCTokenExchange
    \/ AuthCheckRun

SpecC == InitC /\ [][NextC]_vars

-----------------------------------------------------------------------------
(* The configuration file of the client: config.Load and config.LoadDefault *)

\* a nil *Config
NilConfig == [t |-> "nil"]

\* &Config{}: what yaml.Unmarshal fills
EmptyConfig == [Clusters |-> <<>>, DefaultEnvironment |-> ""]

\* the path K8SCTL_CONFIG names when it is set
ConfigPath == "/opt/k8sctl.yaml"

\* the default locations, in the order LoadDefault tries them (HOME is /home/u)
Locations ==
    <<"./k8sctl.yaml", "/home/u/.config/k8sctl/config.yaml", "/etc/k8sctl/config.yaml">>

ConfigPaths == {ConfigPath} \cup {Locations[i] : i \in 1..Len(Locations)}

\* what is at a path: nothing; something os.Stat finds and os.ReadFile
\* cannot read; a file that is not YAML; an empty YAML document; a
\* document with a mapping for prod-east and a default environment
FileKinds == {"missing", "unreadable", "invalid", "empty", "mapped"}

\* the environment a document maps prod-east to, and its default
\* environment, which differ from one path to the other
MappedEnvironment(path) ==
    CASE path = ConfigPath -> "prod-opt"
      [] path = Locations[1] -> "prod-cwd"
      [] path = Locations[2] -> "prod-home"
      [] OTHER -> "prod-etc"

MappedDefault(path) ==
    CASE path = ConfigPath -> "dev-opt"
      [] path = Locations[1] -> "dev-cwd"
      [] path = Locations[2] -> "dev-home"
      [] OTHER -> "dev-etc"

\* Load: os.ReadFile, then yaml.Unmarshal into &Config{}
Load(fs, path) ==
    IF fs[path] \in {"missing", "unreadable"}
    THEN [cfg |-> NilConfig, err |-> "failed to read config file"]
    ELSE IF fs[path] = "invalid"
    THEN [cfg |-> EmptyConfig, err |-> "failed to parse config file"]
    ELSE IF fs[path] = "empty"
    THEN [cfg |-> EmptyConfig, err |-> NoErr]
    ELSE [cfg |-> [Clusters |-> ("prod-east" :> [Environment |-> MappedEnvironment(path),
                                                 ServerURL |-> ""]),
                   DefaultEnvironment |-> MappedDefault(path)],
          err |-> NoErr]

\* a variant of LoadDefault that goes on to the default locations when the
\* file K8SCTL_CONFIG names cannot be loaded
LoadDefault_fallThrough(e, fs) ==
    IF e.K8SCTL_CONFIG # "" /\ Load(fs, e.K8SCTL_CONFIG).err = NoErr
    THEN Load(fs, e.K8SCTL_CONFIG)
    ELSE IF \E i \in 1..Len(Locations) : fs[Locations[i]] # "missing"
    THEN LET first == CHOOSE i \in 1..Len(Locations) :
                          /\ fs[Locations[i]] # "missing"
                          /\ \A j \in 1..(i - 1) : fs[Locations[j]] = "missing"
         IN  Load(fs, Locations[first])
    ELSE [cfg |-> NoFile, err |-> NoErr]

\* LoadDefault: the file K8SCTL_CONFIG names when it is set; else the first
\* default location os.Stat finds; else the built-in configuration
LoadDefault(e, fs) ==
    IF e.K8SCTL_CONFIG # ""
    THEN Load(fs, e.K8SCTL_CONFIG)
    ELSE IF \E i \in 1..Len(Locations) : fs[Locations[i]] # "missing"
    THEN LET first == CHOOSE i \in 1..Len(Locations) :
                          /\ fs[Locations[i]] # "missing"
                          /\ \A j \in 1..(i - 1) : fs[Locations[j]] = "missing"
         IN  Load(fs, Locations[first])
    ELSE [cfg |-> NoFile, err |-> NoErr]

\* nothing loaded yet
NotLoaded == [cfg |-> NilConfig, err |-> "not called"]

\* the runs of a command before it reads its configuration
ConfigRuns ==
    [pc : {"start"},
     environ : [K8SCTL_CONFIG : {"", ConfigPath}, K8SCTL_CLUSTER_SUFFIX : {"", "stg"}],
     fs : [ConfigPaths -> FileKinds],
     cluster : ClusterNames,
     loaded : {NotLoaded},
     suffix : {"not called"}]

InitL ==
    /\ phase = "config"
    /\ env = NoEnv
    /\ config = NoConfig
    /\ storage = "none"
    /\ jwks = {}
    /\ idp = [keys |-> {}, up |-> FALSE]
    /\ now = 0
    /\ req = NoReq
    /\ tok = <<>>
    /\ res = NoRes
    /\ rfr = NoKs
    /\ cli \in ConfigRuns

\* config.LoadDefault is called
CallLoadDefault ==
    /\ phase = "config"
    /\ cli.pc = "start"
    /\ cli' = [cli EXCEPT !.pc = "loaded", !.loaded = LoadDefault(cli.environ, cli.fs)]
    /\ UNCHANGED <<phase, env, config, storage, jwks, idp, now, req, tok, res, rfr>>

\* getClusterSuffix is called; its loadConfig is LoadDefault while nothing
\* is cached
CallGetClusterSuffix ==
    /\ phase = "config"
    /\ cli.pc = "loaded"
    /\ cli' = [cli EXCEPT !.pc = "done",
                          !.suffix = getClusterSuffix(cli.environ,
                                                      LoadDefault(cli.environ, cli.fs),
                                                      cli.cluster)]
    /\ UNCHANGED <<phase, env, config, storage, jwks, idp, now, req, tok, res, rfr>>

NextL ==
    \/ CallLoadDefault
    \/ CallGetClusterSuffix

SpecL == InitL /\ [][NextL]_vars

-----------------------------------------------------------------------------
(* MonitorClusterHandler: the first check, the ticker, the select loop and
   the cancellation of the request *)

\* the checks one request is followed for
MaxChecks == 3

\* interval = 60 // Default to 60 seconds
DefaultInterval == 60

\* a variant of monitorPeriod that keeps an interval of zero
monitorPeriod_zeroKept(interval) ==
    IF interval < 0 THEN DefaultInterval ELSE interval

\* the period of the ticker, in seconds: body.Interval, or the default when
\* it is zero or negative
monitorPeriod(interval) ==
    IF interval <= 0 THEN DefaultInterval ELSE interval

\* the requests that enter MonitorClusterHandler: the interval of the body,
\* whether the body decodes, whether the cluster manager can be made
MonitorRequests ==
    [pc : {"entered"}, interval : {-1, 0, 5}, bodyOK : BOOLEAN, cmOK : BOOLEAN,
     status : {0}, period : {0}, tick : {0}, cancelled : {FALSE},
     checks : {0}, failures : {0}, late : {FALSE}]

InitMon ==
    /\ phase = "monitor"
    /\ env = NoEnv
    /\ config = NoConfig
    /\ storage = "none"
    /\ jwks = {}
    /\ idp = [keys |-> {}, up |-> FALSE]
    /\ now = 0
    /\ req \in MonitorRequests
    /\ tok = <<>>
    /\ res = NoRes
    /\ rfr = NoKs
    /\ cli = NoCli

\* the handler from its entry to the first monitorOnce: a body that does
\* not decode is answered 400 and a cluster manager that cannot be made
\* 500; else 200 is written, the ticker is made and the first check starts
MonitorEnter ==
    /\ phase = "monitor"
    /\ req.pc = "entered"
    /\ req' = IF ~req.bodyOK
              THEN [req EXCEPT !.pc = "returned", !.status = 400]
              ELSE IF ~req.cmOK
              THEN [req EXCEPT !.pc = "returned", !.status = 500,
                               !.period = monitorPeriod(req.interval)]
              ELSE [req EXCEPT !.pc = "checking", !.status = 200,
                               !.period = monitorPeriod(req.interval),
                               !.checks = 1]
    /\ UNCHANGED <<phase, env, config, storage, jwks, idp, now, tok, res, rfr, cli>>

\* monitorOnce returns, after its report or after the error it wrote
MonitorOnceReturn ==
    /\ phase = "monitor"
    /\ req.pc = "checking"
    /\ \E ok \in BOOLEAN :
          req' = [req EXCEPT !.pc = "select",
                             !.failures = IF ok THEN @ ELSE @ + 1]
    /\ UNCHANGED <<phase, env, config, storage, jwks, idp, now, tok, res, rfr, cli>>

\* select takes case <-ticker.C: the next check starts
MonitorSelectTick ==
    /\ phase = "monitor"
    /\ req.pc = "select"
    /\ req.tick = 1
    /\ req.checks < MaxChecks
    /\ req' = [req EXCEPT !.pc = "checking", !.tick = 0, !.checks = @ + 1,
                          !.late = @ \/ req.cancelled]
    /\ UNCHANGED <<phase, env, config, storage, jwks, idp, now, tok, res, rfr, cli>>

\* select takes case <-ctx.Request.Context().Done(): the handler returns
\* and the deferred ticker.Stop() runs
MonitorSelectDone ==
    /\ phase = "monitor"
    /\ req.pc = "select"
    /\ req.cancelled
    /\ req' = [req EXCEPT !.pc = "returned"]
    /\ UNCHANGED <<phase, env, config, storage, jwks, idp, now, tok, res, rfr, cli>>

\* a period has passed: the running ticker sends on its channel, which
\* holds one tick (a tick that finds the channel full is dropped)
TickerFire ==
    /\ phase = "monitor"
    /\ req.pc \in {"checking", "select"}
    /\ req.tick = 0
    /\ req' = [req EXCEPT !.tick = 1]
    /\ UNCHANGED <<phase, env, config, storage, jwks, idp, now, tok, res, rfr, cli>>

\* the client goes away: the context of the request is cancelled
ContextCancel ==
    /\ phase = "monitor"
    /\ req.pc # "returned"
    /\ ~req.cancelled
    /\ req' = [req EXCEPT !.cancelled = TRUE]
    /\ UNCHANGED <<phase, env, config, storage, jwks, idp, now, tok, res, rfr, cli>>

NextMon ==
    \/ MonitorEnter
    \/ MonitorOnceReturn
    \/ MonitorSelectTick
    \/ MonitorSelectDone
    \/ TickerFire
    \/ ContextCancel

\* the handler's goroutine runs, monitorOnce returns, and a select that is
\* evaluated again and again with the cancellation ready takes it in the
\* end (the choice among ready cases is uniformly random)
SpecMon ==
    /\ InitMon
    /\ [][NextMon]_vars
    /\ WF_vars(MonitorEnter)
    /\ WF_vars(MonitorOnceReturn)
    /\ SF_vars(MonitorSelectDone)

-----------------------------------------------------------------------------
(* SpecM: the handler function of Middleware taken gate by gate for one
   request: the header checks, the call of ValidateToken, and the context
   keys with ctx.Next(). state names the position of the request:
   Unauthenticated on entry, HeaderChecked with the token string cut out,
   TokenValidated when ValidateToken returned no error, Authorized once
   ctx.Next() is called, Rejected after ctx.AbortWithStatusJSON. *)

\* the header gates: AbortWithStatusJSON for an empty header and for one
\* that is not two parts with the scheme bearer, else the token string
mwCheckHeader(r) ==
    LET parts == SplitN2(r.header, Sp) IN
    IF r.header = <<>>
    THEN [r EXCEPT !.state = "Rejected", !.status = 401,
                   !.error = "missing authorization header"]
    ELSE IF Len(parts) # 2 \/ ToLower(parts[1]) # <<W("bearer")>>
    THEN [r EXCEPT !.state = "Rejected", !.status = 401,
                   !.error = "invalid authorization header format"]
    ELSE [r EXCEPT !.state = "HeaderChecked", !.tokenString = parts[2]]

\* a variant of mwValidateToken that leaves a refused request at the gate,
\* where the token is validated again
mwValidateToken_retry(cfg, keys, t, r) ==
    LET v == ValidateToken(cfg, keys, t, r.tokenString) IN
    IF v.err # NoErr
    THEN [r EXCEPT !.vcalls = @ + 1, !.verr = v.err]
    ELSE [r EXCEPT !.state = "TokenValidated", !.vcalls = @ + 1, !.verr = NoErr,
                   !.claims = v.claims]

\* the validation gate: one call of ValidateToken, AbortWithStatusJSON on
\* its error
mwValidateToken(cfg, keys, t, r) ==
    LET v == ValidateToken(cfg, keys, t, r.tokenString) IN
    IF v.err # NoErr
    THEN [r EXCEPT !.state = "Rejected", !.status = 401, !.vcalls = @ + 1,
                   !.verr = v.err, !.error = "invalid token: " \o v.err]
    ELSE [r EXCEPT !.state = "TokenValidated", !.vcalls = @ + 1, !.verr = NoErr,
                   !.claims = v.claims]

\* the context keys and ctx.Next()
mwAuthorize(r) ==
    [r EXCEPT !.state = "Authorized", !.next = TRUE,
              !.ctx = [oidc_claims |-> r.claims,
                       user_email |-> IF r.claims.email.t = "str" THEN r.claims.email
                                      ELSE Absent,
                       user_id |-> IF r.claims.sub.t = "str" THEN r.claims.sub
                                   ELSE Absent]]

\* the requests entering the middleware
EnteringRequests ==
    [state : {"Unauthenticated"}, header : AuthHeaders, tokenString : {<<>>},
     status : {0}, error : {""}, vcalls : {0}, verr : {"not called"},
     claims : {NoClaims}, next : {FALSE}, ctx : {NoCtx}]

InitM ==
    /\ phase = "request"
    /\ env = NoEnv
    /\ config \in Configs
    /\ storage = "memory"
    /\ jwks \in SUBSET Kids
    /\ idp = [keys |-> {}, up |-> FALSE]
    /\ now \in 0..MaxTime
    /\ req \in EnteringRequests
    /\ tok = <<>>
    /\ res = NoRes
    /\ rfr = NoKs
    /\ cli = NoCli

MwCheckHeader ==
    /\ phase = "request"
    /\ req.state = "Unauthenticated"
    /\ req' = mwCheckHeader(req)
    /\ UNCHANGED <<phase, env, config, storage, jwks, idp, now, tok, res, rfr, cli>>

MwValidateToken ==
    /\ phase = "request"
    /\ req.state = "HeaderChecked"
    /\ req' = mwValidateToken(config, jwks, now, req)
    /\ UNCHANGED <<phase, env, config, storage, jwks, idp, now, tok, res, rfr, cli>>

MwAuthorize ==
    /\ phase = "request"
    /\ req.state = "TokenValidated"
    /\ req' = mwAuthorize(req)
    /\ UNCHANGED <<phase, env, config, storage, jwks, idp, now, tok, res, rfr, cli>>

NextM ==
    \/ MwCheckHeader
    \/ MwValidateToken
    \/ MwAuthorize

\* the handler function runs to its return once it is entered
SpecM == InitM /\ [][NextM]_vars /\ WF_vars(NextM)

-----------------------------------------------------------------------------
(* What a token is, read off the token itself *)

Called == res # NoRes
TokClaims == tok[1].claims

\* signed with RS256 by the key its kid names, and that key is in the store
TokSigned ==
    /\ IsJWT(tok)
    /\ tok[1].alg = "RS256"
    /\ tok[1].kid.t = "str"
    /\ tok[1].kid.v \in jwks
    /\ tok[1].sig = tok[1].kid.v

TokIssOK == TokClaims.iss = Str(config.IssuerURL)

TokAudIsList == TokClaims.aud.t = "list"
TokAudListHas ==
    /\ TokAudIsList
    /\ \E i \in 1..Len(TokClaims.aud.v) : TokClaims.aud.v[i] = Str(config.Audience)
TokAudOK == TokClaims.aud = Str(config.Audience) \/ TokAudListHas

TokExpFuture == TokClaims.exp.t = "num" /\ TokClaims.exp.v > now
TokExpPast == TokClaims.exp.t = "num" /\ TokClaims.exp.v < now

TokGroupsIsList == TokClaims.groups.t = "list"
TokGroupsMeet ==
    /\ TokGroupsIsList
    /\ \E g \in Range(config.AllowedGroups) :
          \E i \in 1..Len(TokClaims.groups.v) : TokClaims.groups.v[i] = Str(g)
GroupsRequired == config.AllowedGroups # <<>>

ExpirationErrors == {"token is expired", "token expired"}
AudienceErrors == {"invalid audience", "invalid audience claim type"}

\* the token gets as far as the audience check, resp. the group check
ReachesAudience ==
    /\ TokSigned
    /\ TokClaims.exp.t = "absent" \/ TokExpFuture
    /\ TokIssOK
ReachesGroups == TokSigned /\ TokIssOK /\ TokAudOK /\ TokExpFuture

-----------------------------------------------------------------------------
(* Claims checked under SpecV *)

\* C1: ValidateToken returns claims only together with a nil error, and then
\* the signature, issuer, audience, expiration and (when groups are
\* configured) group checks have all passed; every failing path returns
\* empty claims.
C1_AllOrNothing ==
    Called =>
        /\ res.err # NoErr => res.claims = NoClaims
        /\ res.claims # NoClaims =>
              /\ res.err = NoErr
              /\ TokSigned /\ TokIssOK /\ TokAudOK /\ TokExpFuture
              /\ GroupsRequired => TokGroupsMeet

\* a token that passed every check but the last one leaves no claims behind
C1_Witness ==
    /\ Called
    /\ TokSigned /\ TokIssOK /\ TokAudOK /\ TokExpFuture
    /\ res.err = "user not in allowed groups"
    /\ res.claims = NoClaims

\* C4: a token signed by a key of the store, with the configured issuer, an
\* audience (string or list) containing the configured audience, an
\* expiration in the future and, when groups are configured, a group of the
\* allow-list is accepted, and the claims returned are the token's claims.
C4_ValidTokenAccepted ==
    (Called /\ TokSigned /\ TokIssOK /\ TokAudOK /\ TokExpFuture
        /\ (GroupsRequired => TokGroupsMeet))
    => (res.err = NoErr /\ res.claims = TokClaims)

\* accepted with a list audience naming the configured audience second and a
\* required group
C4_Witness ==
    /\ Called /\ res.err = NoErr /\ res.claims = TokClaims
    /\ TokClaims.aud = List(<<Str(OtherURL), Str(Audience)>>)
    /\ GroupsRequired /\ TokGroupsMeet

\* C5: every token whose expiration is in the past fails with an expiration
\* error, whatever its issuer, audience and groups claims are (the token
\* has passed the key and signature steps, which come first).
C5_SignedExpiredExpirationError ==
    (Called /\ TokSigned /\ TokExpPast) => res.err \in ExpirationErrors

\* an expired token with a wrong issuer, a wrong audience and no allowed
\* group is reported as expired
C5_Witness ==
    /\ Called /\ TokSigned /\ TokExpPast
    /\ ~TokIssOK /\ ~TokAudOK /\ GroupsRequired /\ ~TokGroupsMeet
    /\ res.err \in ExpirationErrors

\* C6: the audience check is a membership test: a list without the
\* configured audience fails with an audience mismatch, a list with it (and
\* other values) passes, a single string passes exactly when it is the
\* configured audience.
C6_AudienceMembership ==
    (Called /\ ReachesAudience) =>
        /\ (TokAudIsList /\ ~TokAudListHas) => res.err = "invalid audience"
        /\ TokAudListHas => res.err \notin AudienceErrors
        /\ TokClaims.aud.t = "str" =>
              (res.err \notin AudienceErrors <=> TokClaims.aud.v = config.Audience)

\* a list audience with an unrelated value before the configured one passes
\* the audience check
C6_Witness ==
    /\ Called /\ ReachesAudience
    /\ TokClaims.aud = List(<<Str(OtherURL), Str(Audience)>>)
    /\ res.err \notin AudienceErrors

\* C7: with a non-empty allow-list, a token that passed every earlier check
\* fails with the missing-groups error when it has no groups claim, fails
\* with the not-allowed error when its groups list shares no element with
\* the allow-list, and is accepted exactly when the two intersect.
C7_GroupGate ==
    (Called /\ ReachesGroups /\ GroupsRequired) =>
        /\ TokClaims.groups.t = "absent" => res.err = "token missing groups claim"
        /\ (TokGroupsIsList /\ ~TokGroupsMeet) => res.err = "user not in allowed groups"
        /\ res.err = NoErr <=> TokGroupsMeet

\* a token with two groups, one of them allowed, is accepted
C7_Witness ==
    /\ Called /\ ReachesGroups /\ GroupsRequired
    /\ TokClaims.groups = List(<<Str("engineering"), Str("sre")>>)
    /\ config.AllowedGroups = <<"engineering">>
    /\ res.err = NoErr

\* C8: with an empty allow-list every token that passed the signature,
\* issuer, audience and expiration checks is accepted, whatever its groups
\* claim holds.
C8_NoGroupsConfigured ==
    (Called /\ ReachesGroups /\ ~GroupsRequired) =>
        (res.err = NoErr /\ res.claims = TokClaims)

\* accepted without a groups claim, and accepted with a malformed one
C8_Witness ==
    /\ Called /\ ReachesGroups /\ ~GroupsRequired
    /\ TokClaims.groups \in {Absent, Str("engineering")}
    /\ res.err = NoErr

-----------------------------------------------------------------------------
(* What a request is, read off its Authorization header *)

BearerWords == {W("Bearer"), W("bearer"), W("BEARER")}

\* the scheme Bearer, in any case, followed by a space
HasBearerForm(h) == Len(h) >= 2 /\ h[1] \in BearerWords /\ h[2] = Sp

\* what follows the scheme and its space
TokenPart(h) == SubSeq(h, 3, Len(h))

\* Bearer, a space and a JWT that names an RSA method and a key identifier
CarriesKeyedJWT(h) ==
    /\ HasBearerForm(h)
    /\ IsJWT(TokenPart(h))
    /\ TokenPart(h)[1].alg = "RS256"
    /\ TokenPart(h)[1].kid.t = "str"

\* a step in which the router answers a request
Served == req' # req /\ req' # NoReq

\* ValidateToken accepts the token of the header, as things are now
Accepted(h) ==
    HasBearerForm(h) /\ ValidateToken(config, jwks, now, TokenPart(h)).err = NoErr

-----------------------------------------------------------------------------
(* Claims checked under Spec *)

\* C2: on every route of the /v1 group the protected handler runs only for
\* a request whose bearer token ValidateToken accepted; every other request
\* is aborted by the middleware with 401 and an error body, and its handler
\* never runs. A handler that runs without an accepted token is /status.
C2_ProtectedRoutesGuarded ==
    [][ Served =>
          /\ req'.path \in ProtectedRoutes =>
                IF Accepted(req'.header)
                THEN req'.handler = req'.path
                ELSE req'.handler = "none" /\ req'.status = 401 /\ req'.error # ""
          /\ (req'.handler # "none" /\ ~Accepted(req'.header)) => req'.path = "/status"
      ]_vars

\* a protected request whose token the validator refused: 401, handler not run
C2_Witness ==
    /\ req.path \in ProtectedRoutes
    /\ req.vcalls = 1
    /\ req.error = "invalid token: user not in allowed groups"
    /\ req.status = 401
    /\ req.handler = "none"

\* C3 as stated: a header that is absent, or is not Bearer, a space and a
\* non-empty token, is rejected with 401 and ValidateToken is not invoked.
C3_MalformedHeaderSkipsValidator ==
    (req # NoReq /\ req.path \in ProtectedRoutes
        /\ ~(HasBearerForm(req.header) /\ TokenPart(req.header) # <<>>))
    => (req.status = 401 /\ req.vcalls = 0)

\* C3 as amended: a header that is absent, has no space, or has something
\* other than Bearer (in any case) before its first space is rejected with
\* 401 and ValidateToken is not invoked; Bearer, a space and an empty token
\* is handed to ValidateToken, which rejects it, and the answer is 401 too.
C3_NonBearerHeaderSkipsValidator ==
    (req # NoReq /\ req.path \in ProtectedRoutes) =>
        /\ ~HasBearerForm(req.header) =>
              req.status = 401 /\ req.vcalls = 0 /\ req.handler = "none"
        /\ (HasBearerForm(req.header) /\ TokenPart(req.header) = <<>>) =>
              req.status = 401 /\ req.vcalls = 1 /\ req.handler = "none"

\* a Basic header on a protected route: 401 without a call of ValidateToken
C3_Witness ==
    /\ req.path \in ProtectedRoutes
    /\ req.header = <<W("Basic"), Sp, W("dXNlcjpwdw")>>
    /\ req.status = 401
    /\ req.vcalls = 0
    /\ req.error = "invalid authorization header format"

\* C9: while a key identifier is not in the current key set, every token
\* whose header names it fails with the key-not-found error, also a token
\* that was accepted before the rotation; tokens naming a key identifier
\* that is in the set never fail that way.
C9_RotatedKeyNotFound ==
    [][ (Served /\ req'.path \in ProtectedRoutes /\ CarriesKeyedJWT(req'.header)) =>
          IF TokenPart(req'.header)[1].kid.v \notin jwks
          THEN /\ req'.verr = "failed to find key in JWKS"
               /\ req'.status = 401
               /\ req'.handler = "none"
          ELSE req'.verr # "failed to find key in JWKS"
      ]_vars

\* the same request reached the handler before, and now fails with
\* key-not-found
C9_Witness ==
    /\ req.again
    /\ req.verr = "failed to find key in JWKS"
    /\ req.status = 401

\* C10: when the first JWKS fetch fails NewValidator still returns a
\* validator, its key set is empty, and while the key set is empty no token
\* is accepted and no protected handler runs.
C10_FailClosedAtStartup ==
    [][ /\ (phase = "configured" /\ phase' = "serving" /\ ~idp.up) =>
              (storage' = "memory" /\ jwks' = {})
        /\ (Served /\ jwks = {}) =>
              /\ req'.handler \notin ProtectedRoutes
              /\ req'.vcalls = 1 => req'.verr # NoErr
      ]_vars

\* the first fetch failed, and a token signed by a key the provider
\* publishes is refused by the empty store
C10_Witness ==
    /\ phase = "serving" /\ storage = "memory" /\ jwks = {}
    /\ "k1" \in idp.keys
    /\ req.header = <<W("Bearer"), Sp,
                      JWT([alg |-> "RS256", kid |-> Str("k1"), sig |-> "k1"], ValidClaims)>>
    /\ req.path \in ProtectedRoutes
    /\ req.verr = "failed to find key in JWKS"
    /\ req.status = 401

-----------------------------------------------------------------------------
(* The key store: C11, C12, C13 *)

\* C11: a validator whose first key fetch failed keeps being refreshed: in
\* every serving state of such a validator the refresh is able to run, so
\* that a reachable identity provider fills the key set. (NewValidator gives
\* that validator a memory storage, which has no refresh goroutine.)
C11_FallbackStoreRefreshed ==
    (phase = "serving" /\ storage = "memory") => ENABLED Refresh

\* a refresh cycle of a validator with a loaded key set fails
FailedRefresh ==
    /\ storage = "http"
    /\ rfr.pc = "idle"
    /\ ~idp.up
    /\ rfr'.last = "failed"
    /\ idp' = idp
    /\ res' = res

CompleteSets == IF rfr.pc = "writing" THEN {rfr.old, rfr.new} ELSE {jwks}

\* a ValidateToken call does its key lookup
LookupStep == res = NoRes /\ res' # NoRes

-----------------------------------------------------------------------------
(* The client: C14 .. C20 *)

\* getOIDCToken has returned
Returned == cli.pc \in {"returned", "sent", "fatal"}

\* exchangeJWTForOIDC returned a token response
Exchanged == Returned /\ cli.exch.err = NoErr

AttemptFailed ==
    \/ cli.sshJWT = NoJWT
    \/ cli.resp.kind \in {"dial", "read"}
    \/ cli.resp.status # StatusOK
    \/ ~cli.resp.body.doc.valid
    \/ (cli.resp.body.doc.IDToken = "" /\ cli.resp.body.doc.AccessToken = "")

AssertionAudienceIndependent ==
    \A a \in {"", "https://svc.example.com", "https://other.example.com"}, cl \in ClusterNames :
        signerConfig(cli.lib, [cli.flags EXCEPT !.cluster = cl],
                     [cli.environ EXCEPT !.K8SCTL_AUDIENCE = a], cli.file).DexInstanceID
            = cli.config.DexInstanceID

\* the target audience is in the token request as its audience field only
AudienceOnlyInExchange ==
    /\ cli.sshJWT # NoJWT => cli.sshJWT.aud = cli.config.DexInstanceID
    /\ \A i \in 1..Len(cli.dexReqs) :
          /\ cli.dexReqs[i].audience = cli.config.TargetAudience
          /\ cli.dexReqs[i].subject_token = cli.sshJWT
          /\ cli.dexReqs[i].url = TrimSuffix(cli.config.DexURL, "/") \o "/token"

ClusterMapped ==
    /\ cli.file.err = NoErr
    /\ cli.flags.cluster \in DOMAIN cli.file.cfg.Clusters

\* C18 as stated: the target audience is K8SCTL_AUDIENCE when set; else,
\* when a cluster is given, https://k8sctl-<suffix>.example.com with the
\* suffix the cluster mapping gives; else https://k8sctl-dev.example.com.
C18_AudienceResolutionOrder ==
    cli.signs > 0 =>
        LET e == cli.environ
            cl == cli.flags.cluster IN
        /\ e.K8SCTL_AUDIENCE # "" => cli.config.TargetAudience = e.K8SCTL_AUDIENCE
        /\ (e.K8SCTL_AUDIENCE = "" /\ cl # "" /\ ClusterMapped) =>
              cli.config.TargetAudience =
                 "https://k8sctl-" \o cli.file.cfg.Clusters[cl].Environment \o ".example.com"
        /\ (e.K8SCTL_AUDIENCE = "" /\ cl = "") =>
              cli.config.TargetAudience = "https://k8sctl-dev.example.com"

\* the suffix of a cluster: K8SCTL_CLUSTER_SUFFIX when set, else from the
\* configuration file the mapped environment, the default environment or
\* the cluster name, and the cluster name when the file cannot be loaded
SuffixInOrder ==
    LET e == cli.environ
        cl == cli.flags.cluster IN
    IF e.K8SCTL_CLUSTER_SUFFIX # "" THEN e.K8SCTL_CLUSTER_SUFFIX
    ELSE IF cli.file.err # NoErr THEN cl
    ELSE IF ClusterMapped THEN cli.file.cfg.Clusters[cl].Environment
    ELSE IF cli.file.cfg.DefaultEnvironment # "" THEN cli.file.cfg.DefaultEnvironment
    ELSE cl

\* C18, amended: the target audience is K8SCTL_AUDIENCE when set; else,
\* when a cluster is given, https://k8sctl-<suffix>.example.com with the
\* suffix taken from K8SCTL_CLUSTER_SUFFIX, the cluster mapping, the default
\* environment or the cluster name, in that order; else
\* https://k8sctl-dev.example.com. The token request asks for that audience.
C18_AudienceResolutionWithSuffixOverride ==
    cli.signs > 0 =>
        LET e == cli.environ
            cl == cli.flags.cluster IN
        /\ e.K8SCTL_AUDIENCE # "" => cli.config.TargetAudience = e.K8SCTL_AUDIENCE
        /\ (e.K8SCTL_AUDIENCE = "" /\ cl # "") =>
              cli.config.TargetAudience =
                 "https://k8sctl-" \o SuffixInOrder \o ".example.com"
        /\ (e.K8SCTL_AUDIENCE = "" /\ cl = "") =>
              cli.config.TargetAudience = "https://k8sctl-dev.example.com"
        /\ \A i \in 1..Len(cli.dexReqs) :
              cli.dexReqs[i].audience = cli.config.TargetAudience

\* no override, a mapped cluster: the request asks for the audience of the
\* mapped environment
C18_Witness ==
    /\ cli.environ.K8SCTL_AUDIENCE = ""
    /\ cli.environ.K8SCTL_CLUSTER_SUFFIX = ""
    /\ cli.flags.cluster = "prod-east"
    /\ ClusterMapped
    /\ Len(cli.dexReqs) = 1
    /\ cli.dexReqs[1].audience = "https://k8sctl-prod.example.com"

\* C19: when K8SCTL_AUDIENCE is unset, the audience the client asks for is
\* the server base URL it then sends its request to, whatever the cluster,
\* K8SCTL_SERVER_URL, K8SCTL_CLUSTER_SUFFIX and the configuration file are.
C19_AudienceIsServerBaseURL ==
    (cli.environ.K8SCTL_AUDIENCE = "" /\ cli.pc = "sent") =>
        /\ cli.dexReqs[1].audience
              = getServerBaseURL(cli.environ, cli.file, cli.flags.cluster)
        /\ cli.apiReqs[1].url = cli.dexReqs[1].audience \o "/v1/auth-check"

\* C20: the command sends its request only after getOIDCToken returned a
\* token without an error, with the header Authorization: Bearer <that
\* token>; when getOIDCToken fails the command stops and sends nothing.
C20_RequestOnlyWithToken ==
    /\ cli.apiReqs # <<>> =>
          /\ Returned
          /\ cli.err = NoErr
          /\ cli.token # ""
          /\ cli.token \in {cli.resp.body.doc.IDToken, cli.resp.body.doc.AccessToken}
          /\ Len(cli.apiReqs) = 1
          /\ cli.apiReqs[1].Authorization = "Bearer " \o cli.token
    /\ (Returned /\ cli.err # NoErr) => cli.apiReqs = <<>>
    /\ cli.pc = "fatal" => (cli.err # NoErr /\ cli.apiReqs = <<>>)
    /\ cli.pc = "sent" => cli.apiReqs # <<>>

\* the command sent its request with the id_token it was given
C20_Witness ==
    /\ cli.pc = "sent"
    /\ cli.token = "idtok"
    /\ cli.apiReqs[1].Authorization = "Bearer idtok"

-----------------------------------------------------------------------------
(* The server at start-up: C21, C22 *)

\* C21: with OIDC_ISSUER_URL or OIDC_AUDIENCE empty the server process stops
\* before a validator is built and before it listens, and does nothing
\* afterwards; whenever a request is served both values are set, are the
\* ones of the configuration, and the validator with its key storage exists.
C21_RequiredConfigOrFatal ==
    [][ /\ (phase = "boot" /\ (env.OIDC_ISSUER_URL = "" \/ env.OIDC_AUDIENCE = "")) =>
              (phase' = "fatal" /\ storage' = "none" /\ req' = NoReq)
        /\ phase # "fatal"
        /\ Served =>
              /\ phase = "serving"
              /\ env.OIDC_ISSUER_URL # "" /\ config.IssuerURL = env.OIDC_ISSUER_URL
              /\ env.OIDC_AUDIENCE # "" /\ config.Audience = env.OIDC_AUDIENCE
              /\ storage \in {"http", "memory"}
      ]_vars

\* the audience alone is missing and the process has stopped without a
\* validator
C21_Witness ==
    /\ phase = "fatal"
    /\ env.OIDC_ISSUER_URL # ""
    /\ env.OIDC_AUDIENCE = ""
    /\ env.CLOUDFLARE_API_TOKEN # ""
    /\ env.CLOUDFLARE_ZONE_ID # ""
    /\ storage = "none"
    /\ req = NoReq

\* the allow-list each value of OIDC_ALLOWED_GROUPS stands for
ExpectedAllowedGroups(g) ==
    CASE g = <<>> -> <<"engineering">>
      [] g = <<W("engineering")>> -> <<"engineering">>
      [] g = <<Sp, W("sre"), Comma, Comma, Sp, W("ops"), Sp>> -> <<"sre", "ops">>
      [] g = <<Sp, Comma>> -> <<"engineering">>

\* C22: the allow-list of the server's validator is the comma-separated
\* entries of OIDC_ALLOWED_GROUPS, trimmed, without the empty ones, and
\* {engineering} when the variable is unset or has no such entry; it is
\* never empty.
C22_AllowedGroupsParsedOrDefault ==
    phase \in {"configured", "serving"} =>
        /\ config.AllowedGroups = ExpectedAllowedGroups(env.OIDC_ALLOWED_GROUPS)
        /\ config.AllowedGroups # <<>>
        /\ \A i \in 1..Len(config.AllowedGroups) : config.AllowedGroups[i] # ""

\* the variable holds blanks and a comma only, and the serving validator
\* enforces the default list
C22_Witness ==
    /\ phase = "serving"
    /\ env.OIDC_ALLOWED_GROUPS = <<Sp, Comma>>
    /\ config.AllowedGroups = <<"engineering">>

-----------------------------------------------------------------------------
(* The middleware, request by request: C23 *)

TerminalStates == {"Authorized", "Rejected"}

\* the moves of a request: one gate forward, or to Rejected from a gate
ForwardMoves ==
    {<<"Unauthenticated", "HeaderChecked">>, <<"HeaderChecked", "TokenValidated">>,
     <<"TokenValidated", "Authorized">>,
     <<"Unauthenticated", "Rejected">>, <<"HeaderChecked", "Rejected">>}

\* C23: a request entering the middleware only moves forward through
\* Unauthenticated, HeaderChecked, TokenValidated, Authorized, or drops to
\* Rejected at a gate; it reaches Authorized or Rejected, never leaves a
\* terminal state, and ValidateToken is called at most once for it. What it
\* ends with is what Middleware answers for its header.
C23_RequestStateMachine ==
    /\ [][ /\ <<req.state, req'.state>> \in ForwardMoves
           /\ req.state \notin TerminalStates
           /\ req'.vcalls <= 1 ]_vars
    /\ <>(req.state \in TerminalStates)
    /\ [](req.state \in TerminalStates =>
            LET m == Middleware(config, jwks, now, req.header) IN
            /\ (req.state = "Authorized") = m.next
            /\ req.next = m.next
            /\ req.vcalls = m.vcalls
            /\ req.verr = m.verr
            /\ req.error = m.error
            /\ req.ctx = m.ctx
            /\ req.state = "Rejected" => req.status = m.status)

\* a request was refused by ValidateToken, called once
C23_Witness ==
    /\ phase = "request"
    /\ req.state = "Rejected"
    /\ req.vcalls = 1
    /\ req.verr = "user not in allowed groups"
    /\ req.status = 401

-----------------------------------------------------------------------------
(* The order of the gates of ValidateToken: C24 *)

GroupErrors ==
    {"token missing groups claim", "invalid groups claim type", "user not in allowed groups"}

\* the exp claim fails the expiration step: not a number, or a past second
TokExpFails == TokClaims.exp.t # "num" \/ TokClaims.exp.v < now

\* the errors of the earliest failing step, the steps taken in the order
\* signing method, key identifier, key lookup, signature, issuer, audience,
\* expiration, groups
ErrorsInStatedOrder ==
    IF tok[1].alg # "RS256" THEN {"unexpected signing method"}
    ELSE IF tok[1].kid.t # "str" THEN {"token missing kid header"}
    ELSE IF tok[1].kid.v \notin jwks THEN {"failed to find key in JWKS"}
    ELSE IF tok[1].sig # tok[1].kid.v THEN {"token signature is invalid"}
    ELSE IF ~TokIssOK THEN {"invalid issuer"}
    ELSE IF ~TokAudOK THEN AudienceErrors
    ELSE IF TokExpFails
    THEN ExpirationErrors \cup {"missing or invalid exp claim", "exp is invalid"}
    ELSE IF GroupsRequired /\ ~TokGroupsMeet THEN GroupErrors
    ELSE {NoErr}

\* C24 as stated: when a token fails more than one check, ValidateToken
\* reports the failure of the earliest failing step in the order signing
\* method, key identifier, key lookup, signature, issuer, audience,
\* expiration, groups. (Tokens whose exp is the current second are left out.)
C24_GateOrderAsStated ==
    (Called /\ IsJWT(tok) /\ TokClaims.exp # Num(now)) =>
        res.err \in ErrorsInStatedOrder

\* the errors of the earliest failing step, the exp claim being checked by
\* the parser right after the signature when the token has one
ErrorsInParserOrder ==
    IF tok[1].alg # "RS256" THEN {"unexpected signing method"}
    ELSE IF tok[1].kid.t # "str" THEN {"token missing kid header"}
    ELSE IF tok[1].kid.v \notin jwks THEN {"failed to find key in JWKS"}
    ELSE IF tok[1].sig # tok[1].kid.v THEN {"token signature is invalid"}
    ELSE IF TokClaims.exp.t \notin {"absent", "num"} THEN {"exp is invalid"}
    ELSE IF TokClaims.exp.t = "num" /\ TokClaims.exp.v <= now THEN {"token is expired"}
    ELSE IF ~TokIssOK THEN {"invalid issuer"}
    ELSE IF ~TokAudOK THEN AudienceErrors
    ELSE IF TokClaims.exp.t = "absent" THEN {"missing or invalid exp claim"}
    ELSE IF GroupsRequired /\ ~TokGroupsMeet THEN GroupErrors
    ELSE {NoErr}

\* C24, amended: ValidateToken reports the failure of the earliest failing
\* step in the order signing method, key identifier, key lookup, signature,
\* exp claim present but not numeric or not in the future (checked by the
\* parser), issuer, audience, exp claim absent, groups.
C24_GateOrderWithParserExpiration ==
    (Called /\ IsJWT(tok)) => res.err \in ErrorsInParserOrder

\* a signed token with a wrong issuer and a wrong audience is refused for
\* its issuer
C24_Witness ==
    /\ Called
    /\ TokSigned
    /\ TokExpFuture
    /\ ~TokIssOK
    /\ ~TokAudOK
    /\ res.err = "invalid issuer"

-----------------------------------------------------------------------------
(* The configuration file and the environment suffix: C25, C26 *)

LoadDefaultCalled == phase = "config" /\ cli.pc \in {"loaded", "done"}
SuffixCalled == phase = "config" /\ cli.pc = "done"

\* the cluster has a mapping in the configuration that was loaded
LoadedMapsCluster == cli.loaded.err = NoErr /\ cli.cluster \in DOMAIN cli.loaded.cfg.Clusters

\* C25: getClusterSuffix answers K8SCTL_CLUSTER_SUFFIX when it is non-empty;
\* else the environment the loaded configuration maps the cluster to; else
\* the default environment of the loaded configuration when it is
\* non-empty; else the cluster name.
C25_SuffixPriority ==
    SuffixCalled =>
        /\ cli.environ.K8SCTL_CLUSTER_SUFFIX # "" =>
              cli.suffix = cli.environ.K8SCTL_CLUSTER_SUFFIX
        /\ (cli.environ.K8SCTL_CLUSTER_SUFFIX = "" /\ LoadedMapsCluster) =>
              cli.suffix = cli.loaded.cfg.Clusters[cli.cluster].Environment
        /\ (/\ cli.environ.K8SCTL_CLUSTER_SUFFIX = ""
            /\ ~LoadedMapsCluster
            /\ cli.loaded.err = NoErr
            /\ cli.loaded.cfg.DefaultEnvironment # "") =>
              cli.suffix = cli.loaded.cfg.DefaultEnvironment
        /\ (/\ cli.environ.K8SCTL_CLUSTER_SUFFIX = ""
            /\ ~LoadedMapsCluster
            /\ (cli.loaded.err # NoErr \/ cli.loaded.cfg.DefaultEnvironment = "")) =>
              cli.suffix = cli.cluster

\* the variable wins over a file that maps the cluster
C25_Witness ==
    /\ SuffixCalled
    /\ cli.environ.K8SCTL_CLUSTER_SUFFIX = "stg"
    /\ LoadedMapsCluster
    /\ cli.loaded.cfg.Clusters[cli.cluster].Environment = "prod-cwd"
    /\ cli.suffix = "stg"

\* the place LoadDefault tries: K8SCTL_CONFIG when set, else the first
\* default location where there is something, else none
NoPlace == "none"
PlaceTried ==
    IF cli.environ.K8SCTL_CONFIG # "" THEN cli.environ.K8SCTL_CONFIG
    ELSE IF cli.fs[Locations[1]] # "missing" THEN Locations[1]
    ELSE IF cli.fs[Locations[2]] # "missing" THEN Locations[2]
    ELSE IF cli.fs[Locations[3]] # "missing" THEN Locations[3]
    ELSE NoPlace

\* what loading the place gives: its document, or the error of reading or
\* parsing it
PlaceLoaded ==
    /\ cli.fs[PlaceTried] = "mapped" =>
          /\ cli.loaded.err = NoErr
          /\ cli.loaded.cfg.DefaultEnvironment = MappedDefault(PlaceTried)
          /\ cli.loaded.cfg.Clusters["prod-east"].Environment = MappedEnvironment(PlaceTried)
    /\ cli.fs[PlaceTried] = "empty" =>
          cli.loaded = [cfg |-> EmptyConfig, err |-> NoErr]
    /\ cli.fs[PlaceTried] \in {"missing", "unreadable"} =>
          cli.loaded.err = "failed to read config file"
    /\ cli.fs[PlaceTried] = "invalid" =>
          cli.loaded.err = "failed to parse config file"

-----------------------------------------------------------------------------
(* The auth-check route: C27 *)

\* C27: a request to /v1/auth-check that reaches AuthCheckHandler is
\* answered 200 with status "authenticated", whatever its header; the
\* route answers 200 exactly when the middleware accepted the token of
\* the request, and 401 otherwise.
C27_AuthCheckMirrorsMiddleware ==
    [][(Served /\ req'.path = "/v1/auth-check") =>
          /\ req'.handler = "/v1/auth-check" =>
                (req'.status = 200 /\ req'.body = "authenticated")
          /\ req'.status = 200 <=> Accepted(req'.header)
          /\ req'.status = 200 <=> req'.handler = "/v1/auth-check"
          /\ ~Accepted(req'.header) => (req'.status = 401 /\ req'.body = "")]_vars

\* an accepted token on /v1/auth-check is answered "authenticated"
C27_Witness ==
    /\ req.path = "/v1/auth-check"
    /\ CarriesKeyedJWT(req.header)
    /\ req.verr = NoErr
    /\ req.status = 200
    /\ req.body = "authenticated"

-----------------------------------------------------------------------------
(* The boundary of the expiration check: C28 *)

\* every error that refuses a token for its exp claim
ExpClaimErrors == ExpirationErrors \cup {"missing or invalid exp claim", "exp is invalid"}

\* the token passes every check before the expiration
ReachesExpiration == Called /\ TokSigned /\ TokIssOK /\ TokAudOK

\* C28 as stated: a token with a numeric exp passes the expiration check
\* if and only if the current second is not greater than exp, a token in
\* the second of its exp being accepted; a token whose exp is absent or
\* not numeric fails with the missing-expiration error.
C28_ExpInclusiveBoundary ==
    ReachesExpiration =>
        /\ TokClaims.exp.t = "num" =>
              (res.err \notin ExpClaimErrors <=> now <= TokClaims.exp.v)
        /\ TokClaims.exp.t # "num" => res.err = "missing or invalid exp claim"

\* C28, amended: a token with a numeric exp passes the expiration check if
\* and only if the current second is less than exp, and is refused as
\* expired otherwise, the second of its exp included; a token without exp
\* fails with the missing-expiration error, and a token whose exp is not
\* numeric is refused by the parser with its invalid-exp error.
C28_ExpExclusiveBoundary ==
    ReachesExpiration =>
        /\ TokClaims.exp.t = "num" =>
              /\ res.err \notin ExpClaimErrors <=> now < TokClaims.exp.v
              /\ now >= TokClaims.exp.v => res.err \in ExpirationErrors
        /\ TokClaims.exp.t = "absent" => res.err = "missing or invalid exp claim"
        /\ TokClaims.exp.t \notin {"num", "absent"} => res.err = "exp is invalid"

\* a token is refused as expired in the second of its exp
C28_Witness ==
    /\ ReachesExpiration
    /\ TokClaims.exp = Num(now)
    /\ res.err = "token is expired"

-----------------------------------------------------------------------------
(* What the middleware leaves in the request context: C29 *)

\* the claims of the token of a header
HeaderClaims(h) == TokenPart(h)[1].claims

\* C29: for an accepted request the middleware leaves the claims of the
\* token under oidc_claims, the sub claim under user_id and the email claim
\* under user_email, each of the two only when the claim is a string and
\* unset otherwise, and the protected handler runs; for a refused request
\* none of the three keys is set and no handler runs.
C29_ContextKeys ==
    [][(Served /\ req'.path \in ProtectedRoutes) =>
          /\ Accepted(req'.header) =>
                /\ req'.ctx.oidc_claims = HeaderClaims(req'.header)
                /\ req'.ctx.user_id =
                      IF HeaderClaims(req'.header).sub.t = "str"
                      THEN HeaderClaims(req'.header).sub ELSE Absent
                /\ req'.ctx.user_email =
                      IF HeaderClaims(req'.header).email.t = "str"
                      THEN HeaderClaims(req'.header).email ELSE Absent
                /\ req'.handler = req'.path
                /\ req'.vcalls = 1
          /\ ~Accepted(req'.header) =>
                /\ req'.ctx.oidc_claims = NoClaims
                /\ req'.ctx.user_id = Absent
                /\ req'.ctx.user_email = Absent
                /\ req'.handler = "none"]_vars

\* an accepted token whose sub is a number and whose email is a string:
\* user_id stays unset, user_email is set
C29_Witness ==
    /\ req.path \in ProtectedRoutes
    /\ req.handler = req.path
    /\ req.ctx.oidc_claims # NoClaims
    /\ req.ctx.oidc_claims.sub = Num(7)
    /\ req.ctx.user_id = Absent
    /\ req.ctx.user_email = Str("alice@example.com")

-----------------------------------------------------------------------------
(* The monitoring loop: C30 *)

InLoop == phase = "monitor" /\ req.pc \in {"checking", "select"}

\* the first check starts when the handler is entered, before any tick,
\* with the ticker set to the requested interval or to 60 seconds
FirstCheckImmediately ==
    [][(phase = "monitor" /\ req.pc = "entered" /\ req'.pc \notin {"entered", "returned"}) =>
          /\ req'.pc = "checking"
          /\ req'.checks = 1
          /\ req'.tick = 0
          /\ req'.period = IF req.interval <= 0 THEN 60 ELSE req.interval
          /\ req'.period > 0]_vars

\* every further check takes one tick of the ticker
OneCheckPerTick ==
    [][(InLoop /\ req'.checks # req.checks) =>
          /\ req.pc = "select"
          /\ req.tick = 1
          /\ req'.tick = 0
          /\ req'.checks = req.checks + 1
          /\ req'.pc = "checking"]_vars

\* a check that ends, failed or not, leaves the handler in its loop, which
\* only the cancellation ends
FailedCheckKeepsLoop ==
    [][InLoop =>
          /\ (req.pc = "checking" /\ req'.pc # "checking") => req'.pc = "select"
          /\ req'.pc = "returned" => (req.cancelled /\ req.pc = "select")]_vars

\* once the context is cancelled the handler returns
CancelledReturns == (phase = "monitor" /\ req.cancelled) ~> (req.pc = "returned")

\* C30 as stated: the handler runs one check at once, then one per tick of
\* the requested interval (60 seconds when it is zero or negative); once
\* the context of the request is cancelled it returns in the end and
\* starts no further check; a failed check does not end the loop.
C30_NoCheckAfterCancel ==
    /\ FirstCheckImmediately
    /\ OneCheckPerTick
    /\ FailedCheckKeepsLoop
    /\ CancelledReturns
    /\ [][(InLoop /\ req.cancelled) => req'.checks = req.checks]_vars

\* C30, amended: the handler runs one check at once, then one per tick it
\* takes from the ticker of the requested interval (60 seconds when it is
\* zero or negative); a failed check does not end the loop; once the
\* context of the request is cancelled the handler returns in the end, a
\* tick that is ready together with the cancellation possibly being taken
\* first, and after it returned no check starts.
C30_ReturnsAfterCancel ==
    /\ FirstCheckImmediately
    /\ OneCheckPerTick
    /\ FailedCheckKeepsLoop
    /\ CancelledReturns
    /\ [][(phase = "monitor" /\ req.pc = "returned") => req' = req]_vars

\* the handler returned after a failed check, and a check started after
\* the cancellation
C30_Witness ==
    /\ phase = "monitor"
    /\ req.pc = "returned"
    /\ req.status = 200
    /\ req.failures >= 1
    /\ req.checks >= 2
    /\ req.late

====
